---- MODULE Spec2Model ----
(***************************************************************************)
(* A model of confluence_dumper.py: the filename allocator (FolderManager), *)
(* the persistent page cache (ConfluenceDatabase), the attachment           *)
(* downloader and the recursive crawl driven by main().                     *)
(*                                                                          *)
(* Text is modelled as sequences of one-character strings, so that          *)
(* sanitising, trimming, splitting and suffixing are computed as the code   *)
(* computes them.                                                           *)
(***************************************************************************)
EXTENDS Integers, Sequences, FiniteSets, TLC

\* ------------------------------------------------------------------------
\* Text helpers (Python str operations used by the code)
\* ------------------------------------------------------------------------

\* 'c' * n
Repeat(c, n) == [i \in 1..n |-> c]

\* s[:n]
Take(s, n) == IF Len(s) <= n THEN s ELSE SubSeq(s, 1, n)

\* s[n:]  (n counted from 0 as in Python)
Drop(s, n) == IF Len(s) <= n THEN <<>> ELSE SubSeq(s, n + 1, Len(s))

\* c in s
HasChar(s, c) == \E i \in 1..Len(s) : s[i] = c

\* index of the first / the last occurrence of c in s, 0 when there is none
FirstIndex(s, c) ==
    IF HasChar(s, c) THEN CHOOSE i \in 1..Len(s) : s[i] = c /\ \A j \in 1..(i - 1) : s[j] # c
    ELSE 0

LastIndex(s, c) ==
    IF HasChar(s, c) THEN CHOOSE i \in 1..Len(s) : s[i] = c /\ \A j \in (i + 1)..Len(s) : s[j] # c
    ELSE 0

\* sub in s
Contains(s, sub) ==
    \E i \in 0..(Len(s) - Len(sub)) : SubSeq(s, i + 1, i + Len(sub)) = sub

\* s.split(c)
RECURSIVE Split(_, _)
Split(s, c) ==
    IF ~HasChar(s, c) THEN <<s>>
    ELSE LET i == FirstIndex(s, c)
         IN  <<SubSeq(s, 1, i - 1)>> \o Split(Drop(s, i), c)

\* '%d' % n, for n >= 0
Digit(d) == <<"0", "1", "2", "3", "4", "5", "6", "7", "8", "9">>[d + 1]

RECURSIVE ToDec(_)
ToDec(n) == IF n < 10 THEN <<Digit(n)>> ELSE ToDec(n \div 10) \o <<Digit(n % 10)>>

\* Python's None where a text is expected; like '' it is falsy
None == <<>>

\* the 'html' literal passed as explicit_file_extension (lines 369, 567)
HTML == <<"h", "t", "m", "l">>

\* ------------------------------------------------------------------------
\* utils.sanitize_for_filename (utils.py is not part of the sources at hand)
\* ------------------------------------------------------------------------

\* characters that are illegal in file names on the target filesystems
IllegalChars == {"/", ":", "*", "?", "<", ">", "|"}

\* every illegal character is replaced by '_'
sanitize_for_filename(s) == [i \in 1..Len(s) |-> IF s[i] \in IllegalChars THEN "_" ELSE s[i]]

\* ------------------------------------------------------------------------
\* FolderManager
\* ------------------------------------------------------------------------

\* file_name[:60]
TrimLen == 60

EmptyMap == [x \in {} |-> x]

\* FolderManager.__init__
NewFolderManager(folder) ==
    [folder |-> folder, title_to_filename |-> EmptyMap, duplicate_filenames |-> EmptyMap]

\* a split that lets an explicit extension win over is_folder
ExplicitFirst(file_name, is_folder, explicit_file_extension) ==
    IF explicit_file_extension # None
    THEN [name |-> file_name, ext |-> explicit_file_extension]
    ELSE IF is_folder THEN [name |-> file_name, ext |-> None]
    ELSE IF HasChar(file_name, ".")
         THEN LET i == LastIndex(file_name, ".")
              IN  [name |-> SubSeq(file_name, 1, i - 1), ext |-> Drop(file_name, i)]
    ELSE [name |-> file_name, ext |-> None]

\* lines 224-232: the base name and the extension of a sanitised name
SplitExtension(file_name, is_folder, explicit_file_extension) ==
    IF is_folder THEN [name |-> file_name, ext |-> None]
    ELSE IF explicit_file_extension # None
         THEN [name |-> file_name, ext |-> explicit_file_extension]
    ELSE IF HasChar(file_name, ".")
         THEN LET i == LastIndex(file_name, ".")
              IN  [name |-> SubSeq(file_name, 1, i - 1), ext |-> Drop(file_name, i)]
    ELSE [name |-> file_name, ext |-> None]

\* lines 222-233: the trimmed base name the collision counter is keyed by
BaseName(file_title, is_folder, explicit_file_extension) ==
    Take(SplitExtension(sanitize_for_filename(file_title), is_folder, explicit_file_extension).name,
         TrimLen)

\* a counter that is never advanced
SameDuplicateCount(duplicate_filenames, file_name) ==
    IF file_name \in DOMAIN duplicate_filenames THEN duplicate_filenames[file_name] ELSE 0

\* lines 235-240: the counter of the base name after this allocation
NextDuplicateCount(duplicate_filenames, file_name) ==
    IF file_name \in DOMAIN duplicate_filenames THEN duplicate_filenames[file_name] + 1 ELSE 0

\* lines 237, 240: '%s_%d' for a base name seen before, the base name otherwise
Suffixed(file_name, count) ==
    IF count > 0 THEN file_name \o <<"_">> \o ToDec(count) ELSE file_name

\* lines 242-243
WithExtension(file_name, file_extension) ==
    IF file_extension # None THEN file_name \o <<".">> \o file_extension ELSE file_name

\* an allocation that does not look the title up first
allocate_again(fm, file_title, is_folder, explicit_file_extension) ==
    LET split == SplitExtension(sanitize_for_filename(file_title), is_folder,
                                explicit_file_extension)
        base  == Take(split.name, TrimLen)
        count == NextDuplicateCount(fm.duplicate_filenames, base)
        name  == WithExtension(Suffixed(base, count), split.ext)
    IN  [fm |-> [fm EXCEPT !.title_to_filename =
                               [t \in DOMAIN @ \cup {file_title} |->
                                   IF t = file_title THEN name ELSE @[t]],
                           !.duplicate_filenames = (base :> count) @@ @],
         file_name |-> name]

\* FolderManager.provide_unique_filename: the manager after the call and the
\* file name returned
provide_unique_filename(fm, file_title, is_folder, explicit_file_extension) ==
    IF file_title \in DOMAIN fm.title_to_filename
    THEN [fm |-> fm, file_name |-> fm.title_to_filename[file_title]]
    ELSE LET split == SplitExtension(sanitize_for_filename(file_title), is_folder,
                                     explicit_file_extension)
             base  == Take(split.name, TrimLen)
             count == NextDuplicateCount(fm.duplicate_filenames, base)
             name  == WithExtension(Suffixed(base, count), split.ext)
         IN  [fm |-> [fm EXCEPT !.title_to_filename = (file_title :> name) @@ @,
                                !.duplicate_filenames = (base :> count) @@ @],
              file_name |-> name]

\* ------------------------------------------------------------------------
\* URL helpers (urllib_parse.urlparse(...).path, str.replace, utils.decode_url,
\* utils.is_file_format)
\* ------------------------------------------------------------------------

\* index of the first character of s that is in the set cs, 0 when none is
FirstOf(s, cs) ==
    IF \E i \in 1..Len(s) : s[i] \in cs
    THEN CHOOSE i \in 1..Len(s) : s[i] \in cs /\ \A j \in 1..(i - 1) : s[j] \notin cs
    ELSE 0

\* urlparse(url).path of a server-relative URL: the query and the fragment
\* are cut off, and so are the parameters (';...') of the last path segment
UrlPath(url) ==
    LET cut  == FirstOf(url, {"?", "#"})
        path == IF cut = 0 THEN url ELSE SubSeq(url, 1, cut - 1)
        seg  == Drop(path, LastIndex(path, "/"))
        semi == FirstOf(seg, {";"})
    IN  IF semi = 0 THEN path ELSE SubSeq(path, 1, LastIndex(path, "/") + semi - 1)

\* offset (from 0) of the first occurrence of sub in s, -1 when there is none
Find(s, sub) ==
    IF Contains(s, sub)
    THEN CHOOSE i \in 0..(Len(s) - Len(sub)) :
            /\ SubSeq(s, i + 1, i + Len(sub)) = sub
            /\ \A j \in 0..(i - 1) : SubSeq(s, j + 1, j + Len(sub)) # sub
    ELSE -1

\* s.replace(old, new, 1)
ReplaceFirst(s, old, new) ==
    LET i == Find(s, old)
    IN  IF i < 0 THEN s ELSE SubSeq(s, 1, i) \o new \o Drop(s, i + Len(old))

\* the percent escapes the model's URLs use, and the characters they stand for
Escapes == {<<"2", "0">>, <<"2", "5">>, <<"2", "F">>, <<"3", "A">>}

Unescaped(code) ==
    IF code = <<"2", "0">> THEN " "
    ELSE IF code = <<"2", "5">> THEN "%"
    ELSE IF code = <<"2", "F">> THEN "/"
    ELSE ":"

\* utils.encode_url: percent-encoding; '/' is kept
RECURSIVE encode_url(_)
encode_url(s) ==
    IF s = <<>> THEN <<>>
    ELSE (IF s[1] = " " THEN <<"%", "2", "0">>
          ELSE IF s[1] = "%" THEN <<"%", "2", "5">>
          ELSE IF s[1] = ":" THEN <<"%", "3", "A">>
          ELSE <<s[1]>>) \o encode_url(Drop(s, 1))

\* utils.decode_url: percent-decoding
RECURSIVE decode_url(_)
decode_url(s) ==
    IF s = <<>> THEN <<>>
    ELSE IF s[1] = "%" /\ Len(s) >= 3 /\ SubSeq(s, 2, 3) \in Escapes
         THEN <<Unescaped(SubSeq(s, 2, 3))>> \o decode_url(Drop(s, 3))
    ELSE <<s[1]>> \o decode_url(Drop(s, 1))

\* settings.CONFLUENCE_THUMBNAIL_FORMATS, settings.CONFLUENCE_GENERATED_PREVIEW_FORMATS
CONFLUENCE_THUMBNAIL_FORMATS ==
    {<<"g", "i", "f">>, <<"j", "p", "e", "g">>, <<"j", "p", "g">>, <<"p", "n", "g">>}

CONFLUENCE_GENERATED_PREVIEW_FORMATS == {<<"p", "d", "f">>}

\* utils.is_file_format: the extension of the file name is one of the formats
is_file_format(file_name, formats) ==
    HasChar(file_name, ".") /\ Drop(file_name, LastIndex(file_name, ".")) \in formats

\* ------------------------------------------------------------------------
\* derive_downloaded_file_name
\* ------------------------------------------------------------------------

DOWNLOAD_TEMP ==
    <<"/", "d", "o", "w", "n", "l", "o", "a", "d", "/", "t", "e", "m", "p", "/">>

DOWNLOAD ==
    <<"/", "d", "o", "w", "n", "l", "o", "a", "d", "/">>

CONVERSION_THUMBNAIL ==
    <<"/", "r", "e", "s", "t", "/", "d", "o", "c", "u", "m", "e", "n", "t", "C", "o", "n", "v",
      "e", "r", "s", "i", "o", "n", "/", "l", "a", "t", "e", "s", "t", "/", "c", "o", "n", "v",
      "e", "r", "s", "i", "o", "n", "/", "t", "h", "u", "m", "b", "n", "a", "i", "l", "/">>

ATTACHMENTS_SEG ==
    <<"/", "a", "t", "t", "a", "c", "h", "m", "e", "n", "t", "s", "/">>

THUMBNAILS_SEG ==
    <<"/", "t", "h", "u", "m", "b", "n", "a", "i", "l", "s", "/">>

TEMP_PREFIX ==
    <<"t", "e", "m", "p", "_">>

PREVIEW_PREFIX ==
    <<"g", "e", "n", "e", "r", "a", "t", "e", "d", "_", "p", "r", "e", "v", "i", "e", "w", "_">>

JPG_SUFFIX ==
    <<".", "j", "p", "g">>

\* the last element of a non-empty sequence: parts[-1]
LastOf(parts) == parts[Len(parts)]

\* the result for a URL no pattern matches (Python's None)
NoName == <<>>

derive_downloaded_file_name(download_url) ==
    LET path == UrlPath(download_url)
    IN  IF Contains(path, DOWNLOAD_TEMP)
        THEN TEMP_PREFIX \o LastOf(Split(path, "/"))
        ELSE IF Contains(path, DOWNLOAD)
        THEN LET parts == Split(path, "/")
             IN  parts[4] \o <<"_">> \o parts[3] \o <<"_">> \o LastOf(parts)
        ELSE IF Contains(path, CONVERSION_THUMBNAIL)
        THEN LET rest == Drop(path, Find(path, CONVERSION_THUMBNAIL) + Len(CONVERSION_THUMBNAIL))
                 tail == IF Contains(rest, CONVERSION_THUMBNAIL)
                         THEN SubSeq(rest, 1, Find(rest, CONVERSION_THUMBNAIL))
                         ELSE rest
             IN  PREVIEW_PREFIX \o Take(tail, Len(tail) - 2) \o JPG_SUFFIX
        ELSE NoName

\* ------------------------------------------------------------------------
\* State
\* ------------------------------------------------------------------------

VARIABLES
    scope,        \* a FolderManager driven call by call
    ncalls,       \* provide_unique_filename calls made on scope
    last,         \* the last call on scope: its arguments, result and state before
    allocs,       \* history: per title of scope, the call that allocated its filename
                  \* and how many titles with the same base name came before it
    cached_tinyurl, \* ConfluenceClient.__cached_tinyurl of a client driven call by call
    lookups,      \* history: the calls of get_page_id_by_tinyurl made on that client
    page_tab,     \* the table page_tab of a ConfluenceDatabase driven call by call
    upserted,     \* history: the last upsert_page on page_tab, and page_tab before it
    file_url,     \* the argument of the last call of derive_downloaded_file_name
    derived,      \* what that call returned
    page_scope,   \* the page folder manager of a space, driven link by link and page by page
    page_files,   \* history: per page allocated on page_scope, the file name returned
    rewritten,    \* history: the last element handle_html_references met, and what became of it
    attached,     \* a download folder with its manager, and per attachment URL the file stored
    run,          \* the number of the current run of main()
    mode,         \* args.mode
    force_update, \* args.force_update
    mtime,        \* the remote pages' modification times
    pc,           \* where main() is: "start", "loop", "space", "done", "crashed"
    todo,         \* the items of spaces_pages_to_export not yet iterated
    cur,          \* the space being exported: its key, target ids left, index_page_info
    fs,           \* the SpaceFileSystem of the space being exported
    stack,        \* the active calls of fetch_page_recursively, innermost last
    db,           \* conf.db: page id -> PageTab
    disk,         \* the files under the export folder, each with what was written to it
    dirs,         \* the folders that exist under the export folder
    failures,     \* remote requests that have failed so far
    st,           \* history: per page, what this run did with it and where it raised
    writes,       \* history: what this run wrote, and for which page
    wrote,        \* history: per page, the path its page file was last written to
    fetches,      \* history: the calls of download_file this run made, in order
    attempted,    \* history: the spaces whose homepage lookup this run issued
    answered,     \* history: the spaces whose homepage lookup this run got answered
    existed,      \* history: the spaces whose folder existed when this run took them up
    old           \* history: disk, db and wrote as they were when this run started

fmVars == <<scope, ncalls, last, allocs>>

unitVars ==
    <<cached_tinyurl, lookups, page_tab, upserted, file_url, derived, page_scope, page_files,
      rewritten, attached>>

\* what a run does not change
runVars == <<run, mode, force_update, mtime>>

spaceLog == <<attempted, answered, existed>>

crawlVars ==
    <<runVars, pc, todo, cur, fs, stack, db, disk, dirs, failures, st, writes, wrote, fetches, spaceLog,
      old>>

vars == <<fmVars, unitVars, crawlVars>>

\* ------------------------------------------------------------------------
\* A single FolderManager under arbitrary calls
\* ------------------------------------------------------------------------

\* calls made on the one manager
MaxCalls == 3

TitleA == <<"a">>

TitleAB == <<"a", ".", "b">>

TitleAC == <<"a", ".", "c">>

TitleA1C == <<"a", "_", "1", ".", "c">>

TitleSlash == <<"a", "/">>

TitleColon == <<"a", ":">>

\* two titles of 61 characters that differ in the last one only
TitleLongX == Repeat("a", TrimLen) \o <<"x">>

TitleLongY == Repeat("a", TrimLen) \o <<"y">>

FMTitles == {TitleA, TitleAB, TitleAC, TitleA1C, TitleSlash, TitleColon, TitleLongX, TitleLongY}

NoCall == [title |-> None, is_folder |-> FALSE, ext |-> None, file_name |-> None, known |-> FALSE]

\* one call of provide_unique_filename on the manager
FMProvide ==
    /\ ncalls < MaxCalls
    /\ \E file_title \in FMTitles, is_folder \in BOOLEAN, ext \in {None, HTML} :
          LET r == provide_unique_filename(scope, file_title, is_folder, ext)
          IN  /\ scope' = r.fm
              /\ last' = [title |-> file_title, is_folder |-> is_folder, ext |-> ext,
                          file_name |-> r.file_name,
                          known |-> file_title \in DOMAIN scope.title_to_filename]
              /\ allocs' =
                    IF file_title \in DOMAIN scope.title_to_filename THEN allocs
                    ELSE (file_title :>
                            [is_folder |-> is_folder, ext |-> ext,
                             rank |-> Cardinality(
                                 {t \in DOMAIN allocs :
                                     BaseName(t, allocs[t].is_folder, allocs[t].ext)
                                         = BaseName(file_title, is_folder, ext)})])
                         @@ allocs
    /\ ncalls' = ncalls + 1
    /\ UNCHANGED <<unitVars, crawlVars>>

\* ------------------------------------------------------------------------
\* The remote wiki and the settings of the runs
\* ------------------------------------------------------------------------

\* remote requests that fail, over all runs
MaxFailures == 1

\* runs of main() over the same export folder and conf.db
MaxRuns == 2

\* remote edits of pages between two runs
MaxEdits == 1

\* the results the server puts into one response of a listing (at most the
\* limit=50 the code asks for); the rest follows under the 'next' link
ResultsPerResponse == 1

Pages == 1..4

SpaceKeys == {"S1", "S2"}

TitleHome == <<"h">>

\* response['title'] of a page; the home page of S2 is titled 'index'
Title(p) ==
    IF p = 2 THEN TitleSlash
    ELSE IF p = 3 THEN TitleColon
    ELSE IF p = 4 THEN <<"i", "n", "d", "e", "x">>
    ELSE TitleHome

\* response['_links']['tinyui'].split('/')[-1]
Hash(p) == <<"K", Digit(p)>>

\* response['space']['key']
SpaceOf(p) == IF p = 4 THEN "S2" ELSE "S1"

\* the child page listing of a page, in the server's order
Children(p) == IF p = 1 THEN <<2, 3>> ELSE <<>>

\* response['homepage']['id'] of a space
Homepage(space) == IF space = "S1" THEN 1 ELSE 4

PdfUrl ==
    <<"/", "d", "o", "w", "n", "l", "o", "a", "d", "/", "a", "t", "t", "a", "c", "h", "m", "e",
      "n", "t", "s", "/", "2", "/", "g", ".", "p", "d", "f", "?", "v", "=", "1">>

TempImgUrl ==
    <<"/", "d", "o", "w", "n", "l", "o", "a", "d", "/", "t", "e", "m", "p", "/", "p", ".", "p",
      "n", "g", "?", "c", "=", "1">>

LinkHref ==
    <<"/", "d", "i", "s", "p", "l", "a", "y", "/", "S", "1", "/", "a", "%", "3", "A">>

\* the attachment listing of a page: attachment['_links']['download'] and
\* attachment['id'][3:]
Attachments(p) ==
    IF p = 2 THEN <<[url |-> PdfUrl, attachment_id |-> <<"8">>]>> ELSE <<>>

\* response['body']['view']['value'] of a page (the edit of page 1 leaves
\* it with markup that lxml rejects): whether lxml parses it, the
\* href of its class-less /display/ links and the src of its /download/temp/
\* images
Body(p) ==
    IF p = 1
    THEN [parses |-> mtime[p] = 1, display_links |-> <<LinkHref>>,
          temp_imgs |-> <<TempImgUrl, TempImgUrl>>]
    ELSE IF p = 3 THEN [parses |-> TRUE, display_links |-> <<>>, temp_imgs |-> <<TempImgUrl>>]
    ELSE IF p = 4 THEN [parses |-> FALSE, display_links |-> <<>>, temp_imgs |-> <<>>]
    ELSE [parses |-> TRUE, display_links |-> <<>>, temp_imgs |-> <<>>]

\* settings.SPACES_PAGES_TO_EXPORT: every space with its homepage as target
SPACES_PAGES_TO_EXPORT ==
    <<[space |-> "S1", homepage_only |-> TRUE, target_page_ids |-> <<>>],
      [space |-> "S2", homepage_only |-> TRUE, target_page_ids |-> <<>>]>>

\* settings.PAGES_TO_EXPORT
PAGES_TO_EXPORT == <<2, 3, 4>>

\* ------------------------------------------------------------------------
\* ConfluenceClient.get_page_id_by_tinyurl on a single client
\* ------------------------------------------------------------------------

\* calls of get_page_id_by_tinyurl made on the client
MaxLookups == 3

\* the short links looked up: '/x/K2', '/w/x/K2' (the same hash under a
\* context path) and '/x/K9'
TinyUrls ==
    {<<"/", "x", "/", "K", "2">>, <<"/", "w", "/", "x", "/", "K", "2">>,
     <<"/", "x", "/", "K", "9">>}

\* the chains of redirect URLs the server may answer a short link with: none,
\* '/display/S1/h', '/v?pageId=2', '/login' then '/v?pageId=3', and
\* '/v?pageId' where pageId is no query parameter
Redirections ==
    {<<>>,
     <<<<"/", "d", "i", "s", "p", "l", "a", "y", "/", "S", "1", "/", "h">>>>,
     <<<<"/", "v", "?", "p", "a", "g", "e", "I", "d", "=", "2">>>>,
     <<<<"/", "l", "o", "g", "i", "n">>,
       <<"/", "v", "?", "p", "a", "g", "e", "I", "d", "=", "3">>>>,
     <<<<"/", "v", "?", "p", "a", "g", "e", "I", "d">>>>}

\* None as a page id
NoPageId == 0

\* lines 58-72 as called from line 105: the id of the first page of the space
\* with the title, none when the server lists no such page (found is FALSE
\* once the page was deleted)
get_page_by_title(title, space_key, found) ==
    LET results == {p \in Pages : /\ Title(p) = title
                                  /\ space_key = <<"S", IF SpaceOf(p) = "S1" THEN "1" ELSE "2">>}
    IN  IF found /\ results # {}
        THEN CHOOSE p \in results : \A q \in results : p <= q
        ELSE NoPageId

\* lines 91-109: the loop over the redirect URLs. The titles of the model
\* hold no escape, so unquote_plus leaves them as they are; lines 108-109 are
\* int(parse_qs(query)['pageId'][0]) of a URL with at most one query
\* parameter and an id of one digit, None without such a parameter
RECURSIVE FollowRedirects(_, _)
FollowRedirects(redirect_urls, found) ==
    LET redirect_url == Head(redirect_urls)
        path_comp    == Split(UrlPath(redirect_url), "/")
        cut          == FirstOf(redirect_url, {"?"})
        param        == Split(Drop(redirect_url, cut), "=")
    IN  IF redirect_urls = <<>> THEN NoPageId
        ELSE IF Contains(redirect_url, <<"d", "i", "s", "p", "l", "a", "y">>)
        THEN get_page_by_title(path_comp[Len(path_comp)], path_comp[Len(path_comp) - 1], found)
        ELSE IF Contains(redirect_url, <<"p", "a", "g", "e", "I", "d">>)
        THEN IF cut > 0 /\ Len(param) = 2 /\ param[1] = <<"p", "a", "g", "e", "I", "d">>
             THEN CHOOSE d \in 0..9 : <<Digit(d)>> = param[2]
             ELSE NoPageId
        ELSE FollowRedirects(Tail(redirect_urls), found)

\* get_page_id_by_tinyurl with a cache that also keeps 'not found'
resolve_and_keep(cache, tinyurl, redirect_urls, found, ok) ==
    LET hash_val == LastOf(Split(tinyurl, "/"))
    IN  IF hash_val \in DOMAIN cache
        THEN [cache |-> cache, page_id |-> cache[hash_val], requested |-> FALSE,
              raised |-> FALSE]
        ELSE IF ~ok
        THEN [cache |-> cache, page_id |-> NoPageId, requested |-> TRUE, raised |-> TRUE]
        ELSE [cache |-> (hash_val :> FollowRedirects(redirect_urls, found)) @@ cache,
              page_id |-> FollowRedirects(redirect_urls, found),
              requested |-> TRUE, raised |-> FALSE]

\* get_page_id_by_tinyurl: the cache afterwards, the id returned, whether the
\* redirect request was issued and whether the call raised; ok tells whether
\* the requests the call issues are answered
get_page_id_by_tinyurl(cache, tinyurl, redirect_urls, found, ok) ==
    LET hash_val == LastOf(Split(tinyurl, "/"))
        page_id  == FollowRedirects(redirect_urls, found)
    IN  IF hash_val \in DOMAIN cache
        THEN [cache |-> cache, page_id |-> cache[hash_val], requested |-> FALSE,
              raised |-> FALSE]
        ELSE IF ~ok
        THEN [cache |-> cache, page_id |-> NoPageId, requested |-> TRUE, raised |-> TRUE]
        ELSE [cache |-> IF page_id # NoPageId THEN (hash_val :> page_id) @@ cache ELSE cache,
              page_id |-> page_id, requested |-> TRUE, raised |-> FALSE]

\* one call of get_page_id_by_tinyurl on the client
TinyLookup ==
    /\ Len(lookups) < MaxLookups
    /\ \E tinyurl \in TinyUrls, redirect_urls \in Redirections, found \in BOOLEAN,
          ok \in BOOLEAN :
          LET r == get_page_id_by_tinyurl(cached_tinyurl, tinyurl, redirect_urls, found, ok)
          IN  /\ cached_tinyurl' = r.cache
              /\ lookups' = Append(lookups,
                                   [tinyurl |-> tinyurl, hash_val |-> LastOf(Split(tinyurl, "/")),
                                    page_id |-> r.page_id, requested |-> r.requested,
                                    raised |-> r.raised])
    /\ UNCHANGED <<fmVars, page_tab, upserted, file_url, derived, page_scope, page_files,
                   rewritten, attached, crawlVars>>

\* ------------------------------------------------------------------------
\* derive_downloaded_file_name on the URLs of pages and listings
\* ------------------------------------------------------------------------

\* the URLs derive_downloaded_file_name is called with: with and without a
\* context path, a /download/temp/, /download/attachments/5/,
\* /download/thumbnails/5/ or /display/S1/ path to one of four files, or the
\* conversion thumbnail of attachment 8 or 77 in version 1 or 12, each without
\* a query, with '?v=1' and with '?u=/download/temp/x'
DownloadUrls ==
    LET contexts == {<<>>, <<"/", "w">>}
        folders  == {DOWNLOAD_TEMP,
                     DOWNLOAD \o Tail(ATTACHMENTS_SEG) \o <<"5", "/">>,
                     DOWNLOAD \o Tail(THUMBNAILS_SEG) \o <<"5", "/">>,
                     <<"/", "d", "i", "s", "p", "l", "a", "y", "/", "S", "1", "/">>}
        files    == {<<"p", ".", "p", "n", "g">>, <<"g", ".", "p", "d", "f">>,
                     <<"a", ";", "b">>, <<"x">>}
        previews == {<<"8", "/", "1">>, <<"8", "/", "1", "2">>, <<"7", "7", "/", "1">>,
                     <<"7", "7", "/", "1", "2">>}
        queries  == {<<>>, <<"?", "v", "=", "1">>, <<"?", "u", "=">> \o DOWNLOAD_TEMP \o <<"x">>}
    IN  {c \o f \o n \o q : c \in contexts, f \in folders, n \in files, q \in queries}
        \cup {c \o CONVERSION_THUMBNAIL \o v \o q : c \in contexts, v \in previews, q \in queries}

\* one call of derive_downloaded_file_name
Derive ==
    /\ \E url \in DownloadUrls :
          /\ file_url' = url
          /\ derived' = derive_downloaded_file_name(url)
    /\ UNCHANGED <<fmVars, cached_tinyurl, lookups, page_tab, upserted, page_scope, page_files,
                   rewritten, attached, crawlVars>>

\* ------------------------------------------------------------------------
\* ConfluenceDatabase
\* ------------------------------------------------------------------------

\* the PageTab that get_page_details_by_page_id builds for page p
PageTabOf(p, when) ==
    [page_id |-> p, title |-> Title(p), hash |-> Hash(p), space |-> SpaceOf(p), mtime |-> when]

\* fetchone() found no row
NoRow == [page_id |-> 0]

get_page_by_id(table, page_id) == IF page_id \in DOMAIN table THEN table[page_id] ELSE NoRow

insert_page(table, page) == (page.page_id :> page) @@ table

update_page(table, page) ==
    [id \in DOMAIN table |-> IF id = page.page_id THEN page ELSE table[id]]

\* an upsert that leaves an entry it finds as it is
insert_if_absent(table, page) ==
    IF get_page_by_id(table, page.page_id) = NoRow THEN insert_page(table, page)
    ELSE table

upsert_page(table, page) ==
    IF get_page_by_id(table, page.page_id) = NoRow THEN insert_page(table, page)
    ELSE update_page(table, page)

\* the entries upserted into the database driven on its own: two ids, each
\* with two titles, two spaces and two modification times
PageTabs ==
    [page_id : 1..2, title : {TitleHome, TitleSlash}, hash : {Hash(1)}, space : SpaceKeys,
     mtime : 1..2]

\* one call of upsert_page on the database
DbUpsert ==
    /\ \E page \in PageTabs :
          /\ page_tab' = upsert_page(page_tab, page)
          /\ upserted' = [page |-> page, before |-> page_tab]
    /\ UNCHANGED <<fmVars, cached_tinyurl, lookups, file_url, derived, page_scope, page_files,
                   rewritten, attached, crawlVars>>

\* a check that takes a page for new also when the cached time equals the
\* fetched one
StaleOrSame(page_db, page, force) ==
    page_db = NoRow \/ page_db.mtime <= page.mtime \/ force

\* line 562
is_new_page(page_db, page, force) ==
    page_db = NoRow \/ page_db.mtime < page.mtime \/ force

\* ------------------------------------------------------------------------
\* Files
\* ------------------------------------------------------------------------

\* space_folder and download_folder of a space (lines 684, 686)
SpaceFolder(space) == <<"export", space>>

DownloadFolder(space) == <<"export", space, "attachments">>

\* SpaceFileSystem.__init__
NewSpaceFileSystem(space) ==
    [page_folder_manager |-> NewFolderManager(SpaceFolder(space)),
     download_folder_manager |-> NewFolderManager(DownloadFolder(space))]

\* '%s/%s' % (folder, file_name)
PathOf(folder, file_name) == [folder |-> folder, name |-> file_name]

\* SpaceFileSystem.get_file_path
get_file_path(sfs, file_name) == PathOf(sfs.page_folder_manager.folder, file_name)

\* SpaceFileSystem.get_id_file_path: '%s/%s.html' % (folder, page_id)
get_id_file_path(sfs, page_id) ==
    PathOf(sfs.page_folder_manager.folder, ToDec(page_id) \o <<".">> \o HTML)

\* os.path.exists
Exists(files, path) == \E f \in files : f.path = path

\* a file is created or overwritten
WriteFile(files, path, content) ==
    {f \in files : f.path # path} \cup {[path |-> path, content |-> content]}

\* what a download prints when its request fails (lines 455-459)
Report(error_output) == IF error_output THEN "error" ELSE "warning"

\* download_file without the test of line 446
download_always(files, download_folder, downloaded_file_name, ok, error_output) ==
    LET path == PathOf(download_folder, downloaded_file_name)
    IN  IF ok
        THEN [files |-> WriteFile(files, path, [kind |-> "download", page |-> 0, refs |-> {}]),
              path |-> path, requested |-> TRUE, failed |-> FALSE, report |-> "none"]
        ELSE [files |-> files, path |-> path, requested |-> TRUE, failed |-> TRUE,
              report |-> Report(error_output)]

\* download_file: the files afterwards, the path returned, whether a request
\* was issued, whether it failed and what was printed; ok tells whether a
\* request, if issued, succeeds
download_file(files, download_folder, downloaded_file_name, ok, error_output) ==
    LET path == PathOf(download_folder, downloaded_file_name)
    IN  IF Exists(files, path)
        THEN [files |-> files, path |-> path, requested |-> FALSE, failed |-> FALSE,
              report |-> "none"]
        ELSE IF ok
        THEN [files |-> WriteFile(files, path, [kind |-> "download", page |-> 0, refs |-> {}]),
              path |-> path, requested |-> TRUE, failed |-> FALSE, report |-> "none"]
        ELSE [files |-> files, path |-> path, requested |-> TRUE, failed |-> TRUE,
              report |-> Report(error_output)]

\* a download that is not attempted
NoDownload(files) ==
    [files |-> files, path |-> None, requested |-> FALSE, failed |-> FALSE, report |-> "none"]

PREVIEW_TAIL == <<"/", "1">>

\* line 491 for a preview that has its name
PreviewFetched(named, files, oks) ==
    [fm |-> named.fm,
     download |-> download_file(files, named.fm.folder, named.file_name, oks[3], FALSE)]

\* lines 482-484 for a thumbnail that has its name
ThumbnailNamed(named, files, oks) ==
    [fm |-> named.fm,
     download |-> IF is_file_format(named.file_name, CONFLUENCE_THUMBNAIL_FORMATS)
                  THEN download_file(files, named.fm.folder, named.file_name, oks[2], FALSE)
                  ELSE NoDownload(files)]

\* lines 487-491: the generated preview of an attachment of a preview format
\* is named and downloaded
DownloadPreview(attachment_id, named, thumb, oks) ==
    IF attachment_id # None
       /\ is_file_format(named.file_name, CONFLUENCE_GENERATED_PREVIEW_FORMATS)
    THEN PreviewFetched(provide_unique_filename(
                            thumb.fm,
                            derive_downloaded_file_name(
                                CONVERSION_THUMBNAIL \o attachment_id \o PREVIEW_TAIL),
                            FALSE, None),
                        thumb.download.files, oks)
    ELSE [fm |-> thumb.fm, download |-> NoDownload(thumb.download.files)]

\* lines 479-484: the thumbnail is named, and downloaded when its name is of a
\* thumbnail format
DownloadThumbnail(clean_url, fm, files, oks) ==
    ThumbnailNamed(provide_unique_filename(
                       fm,
                       derive_downloaded_file_name(
                           ReplaceFirst(clean_url, ATTACHMENTS_SEG, THUMBNAILS_SEG)),
                       FALSE, None),
                   files, oks)

\* line 493 with the three downloads made
AttachmentDone(primary, thumb, preview) ==
    [fm |-> preview.fm, files |-> preview.download.files,
     info |-> [file_name |-> primary.name, file_path |-> primary.download.path],
     downloads |-> <<primary.download, thumb.download, preview.download>>]

\* lines 479-493 once the file itself is downloaded
AttachmentThumbed(attachment_id, named, primary, thumb, oks) ==
    AttachmentDone(primary, thumb, DownloadPreview(attachment_id, named, thumb, oks))

AttachmentFetched(clean_url, attachment_id, named, primary, oks) ==
    AttachmentThumbed(attachment_id, named, primary,
                      DownloadThumbnail(clean_url, named.fm, primary.download.files, oks), oks)

\* lines 476-493 once the attachment has its file name
AttachmentNamed(clean_url, attachment_id, named, files, oks) ==
    AttachmentFetched(clean_url, attachment_id, named,
                      [name |-> named.file_name,
                       download |-> download_file(files, named.fm.folder, named.file_name,
                                                  oks[1], TRUE)],
                      oks)

\* download_attachment: the download folder manager and the files afterwards,
\* the attachment record returned and the three downloads (the file itself,
\* its thumbnail, its generated preview); oks[i] tells whether the request of
\* download i, if issued, succeeds
download_attachment(download_url, attachment_id, download_fm, files, oks) ==
    AttachmentNamed(decode_url(download_url), attachment_id,
                    provide_unique_filename(
                        download_fm,
                        derive_downloaded_file_name(decode_url(download_url)),
                        FALSE, None),
                    files, oks)

\* ------------------------------------------------------------------------
\* handle_html_references, as far as it changes the page folder manager
\* ------------------------------------------------------------------------

\* the last path segment of a link as it stands
RawLinkTitle(href) == LastOf(Split(UrlPath(href), "/"))

\* lines 365-368: the page title a /display/ link names
LinkTitle(href) ==
    LET seg == LastOf(Split(UrlPath(href), "/"))
    IN  decode_url([i \in 1..Len(seg) |-> IF seg[i] = "+" THEN " " ELSE seg[i]])

\* lines 362-370 over the class-less /display/ links of a body, in document
\* order: the page folder manager afterwards
RECURSIVE AllocateLinks(_, _)
AllocateLinks(fm, hrefs) ==
    IF hrefs = <<>> THEN fm
    ELSE AllocateLinks(provide_unique_filename(fm, LinkTitle(Head(hrefs)), FALSE, HTML).fm,
                       Tail(hrefs))

\* a parser that returns a tree for every body
TreeAnyway(body) == TRUE

\* parse_html_tree and line 577: the tree is None when the body does not parse
HasTree(body) == body.parses

\* lines 574-579: what the parse of a new page's body prints
ParseReport(is_new, body) == IF is_new /\ ~HasTree(body) THEN "warning" ELSE "none"

\* ------------------------------------------------------------------------
\* handle_html_references, element by element
\* ------------------------------------------------------------------------

\* settings.DOWNLOAD_SUB_FOLDER
DOWNLOAD_SUB_FOLDER == <<"a", "t", "t", "a", "c", "h", "m", "e", "n", "t", "s">>

\* a rule for links that does not look at the class attribute
AnyClass(element) == TRUE

\* lines 363, 374, 382: `not link_element.get('class')`
Classless(element) == element.class = None

\* lines 361-412 for one element of the tree: [tag, class, target] with
\* target the href of an <a> and the src of an <img>.  The five loops run one
\* after the other, each over the elements its xpath selects in the tree as
\* the loops before left it; page_id is what get_page_id_by_tinyurl
\* answers for the element (NoPageId: not resolved).  The result is the page
\* folder manager afterwards, the target afterwards and the loops that
\* assigned the target, in order.
RewriteElement(element, fm, page_id) ==
    LET DISPLAY   == <<"/", "d", "i", "s", "p", "l", "a", "y", "/">>
        TINY      == <<"/", "x", "/">>
        VIEWPAGE  == <<"/", "p", "a", "g", "e", "s", "/", "v", "i", "e", "w", "p", "a", "g", "e",
                       ".", "a", "c", "t", "i", "o", "n", "?", "p", "a", "g", "e", "I", "d", "=">>
        EMBEDDED  == <<"c", "o", "n", "f", "l", "u", "e", "n", "c", "e", "-", "e", "m", "b", "e",
                       "d", "d", "e", "d", "-", "f", "i", "l", "e">>
        \* '%s/%s' % (settings.DOWNLOAD_SUB_FOLDER, derive_downloaded_file_name(url))
        Relative(url) ==
            LET file_name == derive_downloaded_file_name(url)
            IN  DOWNLOAD_SUB_FOLDER \o <<"/">>
                \o (IF file_name = NoName THEN <<"N", "o", "n", "e">> ELSE file_name)
        \* href.split('/pages/viewpage.action?pageId=')[1]
        IdOf(href) ==
            LET rest == Drop(href, Find(href, VIEWPAGE) + Len(VIEWPAGE))
            IN  IF Contains(rest, VIEWPAGE) THEN SubSeq(rest, 1, Find(rest, VIEWPAGE)) ELSE rest
        Offline(r, offline) ==
            [fm |-> offline.fm, target |-> encode_url(offline.file_name),
             by |-> r.by \o <<"display">>]
        link      == element.tag = "a"
        Assigned(r, rule, target) == [r EXCEPT !.target = target, !.by = @ \o <<rule>>]
        \* lines 361-370
        Display(r) ==
            IF link /\ Contains(r.target, DISPLAY) /\ Classless(element)
            THEN Offline(r, provide_unique_filename(r.fm, LinkTitle(r.target), FALSE, HTML))
            ELSE r
        \* lines 372-378
        Tiny(r) ==
            IF link /\ Contains(r.target, TINY) /\ Classless(element) /\ page_id # NoPageId
            THEN Assigned(r, "tiny", VIEWPAGE \o ToDec(page_id))
            ELSE r
        \* lines 380-386
        ById(r) ==
            IF link /\ Contains(r.target, VIEWPAGE) /\ Classless(element)
            THEN Assigned(r, "page-id",
                          encode_url(sanitize_for_filename(IdOf(r.target)) \o <<".">> \o HTML))
            ELSE r
        \* lines 388-395
        File(r) ==
            IF link /\ Contains(element.class, EMBEDDED)
            THEN Assigned(r, "embedded-file", Relative(r.target))
            ELSE r
        \* lines 397-412
        Image(r) ==
            IF element.tag = "img"
               /\ (Contains(r.target, DOWNLOAD) \/ Contains(r.target, CONVERSION_THUMBNAIL))
            THEN Assigned(r, "image", Relative(r.target))
            ELSE r
    IN  Image(File(ById(Tiny(Display([fm |-> fm, target |-> element.target, by |-> <<>>])))))

\* a second attachment of page 2, with the name of the first up to the
\* extension
PngUrl ==
    <<"/", "d", "o", "w", "n", "l", "o", "a", "d", "/", "a", "t", "t", "a", "c", "h", "m", "e",
      "n", "t", "s", "/", "2", "/", "g", ".", "p", "n", "g">>

\* the elements handed to the rules: links and images, without a class, with
\* the class of an embedded file and with another class, over targets of
\* every kind the rules look for and of two at once
HtmlElements ==
    [tag : {"a", "img"},
     class : {None,
              <<"c", "o", "n", "f", "l", "u", "e", "n", "c", "e", "-", "e", "m", "b", "e",
                "d", "d", "e", "d", "-", "f", "i", "l", "e">>,
              <<"c">>},
     target : {LinkHref,
               <<"/", "d", "i", "s", "p", "l", "a", "y", "/", "S", "1", "/", "a", "+", "b">>,
               <<"/", "d", "i", "s", "p", "l", "a", "y", "/", "x", "/", "h">>,
               <<"/", "x", "/", "K", "2">>,
               <<"/", "p", "a", "g", "e", "s", "/", "v", "i", "e", "w", "p", "a", "g", "e",
                 ".", "a", "c", "t", "i", "o", "n", "?", "p", "a", "g", "e", "I", "d", "=", "3">>,
               PdfUrl, TempImgUrl, PngUrl,
               CONVERSION_THUMBNAIL \o <<"8", "/", "1">>,
               <<"/", "d", "i", "s", "p", "l", "a", "y", "/", "S", "1", "/", "h">>}]

\* handle_html_references meets one element; the server is asked about a
\* href that holds '/x/' only, and resolves it or not
Rewrite ==
    /\ \E element \in HtmlElements, page_id \in {NoPageId, 2} :
          /\ page_id # NoPageId => Contains(element.target, <<"/", "x", "/">>)
          /\ LET r == RewriteElement(element, page_scope, page_id)
             IN  /\ page_scope' = r.fm
                 /\ rewritten' = [element |-> element, page_id |-> page_id,
                                  target |-> r.target, by |-> r.by]
    /\ UNCHANGED <<fmVars, cached_tinyurl, lookups, page_tab, upserted, file_url, derived,
                   page_files, attached, crawlVars>>

\* lines 581-586 for one attachment of the listing: download_attachment on the
\* download folder of S1, every request answered
FetchAttachment ==
    /\ \E a \in {[url |-> PdfUrl, attachment_id |-> <<"8">>],
                 [url |-> PngUrl, attachment_id |-> <<"9">>]} :
          /\ a.url \notin DOMAIN attached.stored
          /\ LET r == download_attachment(a.url, a.attachment_id, attached.fm, attached.files,
                                          [i \in 1..3 |-> TRUE])
             IN  attached' = [fm |-> r.fm, files |-> r.files,
                              stored |-> (a.url :> r.info.file_path.name) @@ attached.stored]
    /\ UNCHANGED <<fmVars, cached_tinyurl, lookups, page_tab, upserted, file_url, derived,
                   page_scope, page_files, rewritten, crawlVars>>

\* line 567 for one page of the space S1
AllocatePage ==
    /\ \E p \in Pages :
          /\ SpaceOf(p) = "S1"
          /\ p \notin DOMAIN page_files
          /\ LET r == provide_unique_filename(page_scope, Title(p), FALSE, HTML)
             IN  /\ page_scope' = r.fm
                 /\ page_files' = (p :> r.file_name) @@ page_files
    /\ UNCHANGED <<fmVars, cached_tinyurl, lookups, page_tab, upserted, file_url, derived,
                   rewritten, attached, crawlVars>>

\* ------------------------------------------------------------------------
\* fetch_page_recursively
\* ------------------------------------------------------------------------

\* a call of fetch_page_recursively(page_id, ...) that has just been entered;
\* children are the results of the last listing response not yet iterated,
\* pending what the server holds back under the 'next' link
NewFrame(p) ==
    [page_id |-> p, pc |-> "fetch", page |-> NoRow, is_new |-> FALSE, file_name |-> None,
     work |-> <<>>, child_attachments |-> <<>>, child_pages |-> <<>>, children |-> <<>>,
     pending |-> <<>>]

\* PageInfo, as far as the index uses it
PageInfo(page, file_path, child_pages) ==
    [page_id |-> page.page_id, file_path |-> file_path, child_pages |-> child_pages]

\* the page ids of a list of PageInfo
Ids(nodes) == [i \in 1..Len(nodes) |-> nodes[i].page_id]

Unseen ==
    [visited |-> FALSE, cache |-> "unseen", ret |-> "open", raised |-> "", had |-> FALSE,
     cached |-> 0, fetched |-> 0, kids |-> <<>>, printed |-> "none"]

NoSpace == [space |-> "", space_name |-> "", target_page_ids |-> <<>>, child_pages |-> <<>>]

NoFs == [page_folder_manager |-> NewFolderManager(<<>>),
         download_folder_manager |-> NewFolderManager(<<>>)]

Top == stack[Len(stack)]

InCall(step) == pc = "space" /\ stack # <<>> /\ Top.pc = step

CanFail == failures < MaxFailures

\* a return whose exception is not caught in the call that raised it: it ends
\* the caller as well
ReturnedThroughCaller(is_node) ==
    LET n    == Len(stack)
        rest == SubSeq(stack, 1, IF is_node \/ n < 2 THEN n - 1 ELSE n - 2)
        node == PageInfo(Top.page, Top.file_name, Top.child_pages)
    IN  /\ IF rest = <<>>
           THEN /\ cur' = IF is_node /\ n = 1
                          THEN [cur EXCEPT !.child_pages = Append(@, node)] ELSE cur
                /\ stack' = <<>>
           ELSE /\ stack' = IF is_node
                            THEN [rest EXCEPT ![Len(rest)].child_pages = Append(@, node)]
                            ELSE rest
                /\ UNCHANGED cur
        /\ st' = [p \in Pages |->
                     IF p = Top.page_id
                     THEN [st[p] EXCEPT !.visited = TRUE,
                                        !.ret = IF is_node THEN "node" ELSE "none",
                                        !.raised = IF is_node THEN "" ELSE Top.pc,
                                        !.kids = Ids(Top.child_pages)]
                     ELSE IF ~is_node /\ n >= 2 /\ p = stack[n - 1].page_id
                     THEN [st[p] EXCEPT !.ret = "none", !.raised = "child"]
                     ELSE st[p]]

\* the innermost call returns: with page_object (lines 604, 698 append it to
\* the caller's child_pages) or, after a ConfluenceException of one of its own
\* requests (lines 608-610), with None (append_child_page drops it)
Returned(is_node) ==
    LET rest == SubSeq(stack, 1, Len(stack) - 1)
    IN  /\ IF rest = <<>>
           THEN /\ cur' = IF is_node
                          THEN [cur EXCEPT !.child_pages =
                                   Append(@, PageInfo(Top.page, Top.file_name, Top.child_pages))]
                          ELSE cur
                /\ stack' = <<>>
           ELSE /\ stack' = IF is_node
                            THEN [rest EXCEPT ![Len(rest)].child_pages =
                                     Append(@, PageInfo(Top.page, Top.file_name, Top.child_pages))]
                            ELSE rest
                /\ UNCHANGED cur
        /\ st' = [st EXCEPT ![Top.page_id] =
                     [@ EXCEPT !.visited = TRUE,
                               !.ret = IF is_node THEN "node" ELSE "none",
                               !.raised = IF is_node THEN "" ELSE Top.pc,
                               !.kids = Ids(Top.child_pages)]]

\* every page is rendered, new or not
RenderAnyway(is_new) == "attachments"

\* line 572: a new page is rendered, any other goes on to its children
AfterCacheCheck(is_new) == IF is_new THEN "attachments" ELSE "children"

\* lines 559-579: the page is fetched, checked against the cache and given
\* its file name, and the body of a new page is parsed
FetchOk ==
    /\ InCall("fetch")
    /\ LET p       == Top.page_id
           page    == PageTabOf(p, mtime[p])
           page_db == get_page_by_id(db, page.page_id)
           is_new  == is_new_page(page_db, page, force_update)
           r       == provide_unique_filename(fs.page_folder_manager, page.title, FALSE, HTML)
       IN  /\ fs' = [fs EXCEPT !.page_folder_manager = r.fm]
           /\ stack' = [stack EXCEPT ![Len(stack)] =
                           [@ EXCEPT !.pc = AfterCacheCheck(is_new),
                                     !.page = page, !.is_new = is_new,
                                     !.file_name = r.file_name]]
           /\ st' = [st EXCEPT ![p] =
                        [@ EXCEPT !.visited = TRUE,
                                  !.cache = IF is_new THEN "new" ELSE "skip",
                                  !.had = page_db # NoRow,
                                  !.cached = IF page_db # NoRow THEN page_db.mtime ELSE 0,
                                  !.fetched = page.mtime,
                                  !.printed = ParseReport(is_new, Body(p))]]
    /\ UNCHANGED <<fmVars, unitVars, runVars, pc, todo, cur, db, disk, dirs, failures, writes, wrote, fetches,
                   spaceLog, old>>

\* line 559 raises ConfluenceException
FetchFail ==
    /\ InCall("fetch")
    /\ CanFail
    /\ failures' = failures + 1
    /\ Returned(FALSE)
    /\ UNCHANGED <<fmVars, unitVars, runVars, pc, todo, fs, db, disk, dirs, writes, wrote, fetches, spaceLog, old>>

\* the downloads of a rendered page: its attachments (lines 515-517), then
\* the /download/temp/ images of its tree (lines 530-534)
Downloads(p) ==
    Attachments(p)
    \o (IF HasTree(Body(p))
        THEN [i \in 1..Len(Body(p).temp_imgs) |->
                 [url |-> Body(p).temp_imgs[i], attachment_id |-> None]]
        ELSE <<>>)

\* line 515: the attachment listing is answered (no page of the model has more
\* attachments than one response holds)
ListAttachmentsOk ==
    /\ InCall("attachments")
    /\ stack' = [stack EXCEPT ![Len(stack)] =
                    [@ EXCEPT !.work = Downloads(Top.page_id),
                              !.pc = IF Downloads(Top.page_id) = <<>> THEN "write"
                                     ELSE "download"]]
    /\ UNCHANGED <<fmVars, unitVars, runVars, pc, todo, cur, fs, db, disk, dirs, failures, st, writes,
                   wrote, fetches, spaceLog, old>>

\* line 515 raises ConfluenceException
ListAttachmentsFail ==
    /\ InCall("attachments")
    /\ CanFail
    /\ failures' = failures + 1
    /\ Returned(FALSE)
    /\ UNCHANGED <<fmVars, unitVars, runVars, pc, todo, fs, db, disk, dirs, writes, wrote, fetches, spaceLog, old>>

FailedCount(downloads) == Cardinality({i \in 1..Len(downloads) : downloads[i].failed})

\* the calls of download_file that download_attachment made (lines 476, 484,
\* 491), in order, each with the file found at its path before and after it
Calls(r) ==
    LET FilesBefore(i) == IF i = 1 THEN disk ELSE r.downloads[i - 1].files
        FileAt(files, path) == {f \in files : f.path = path}
    IN  SelectSeq([i \in 1..3 |->
                     [page |-> Top.page_id, part |-> i, path |-> r.downloads[i].path,
                      before |-> FileAt(FilesBefore(i), r.downloads[i].path),
                      after |-> FileAt(r.downloads[i].files, r.downloads[i].path),
                      requested |-> r.downloads[i].requested,
                      failed |-> r.downloads[i].failed,
                      report |-> r.downloads[i].report]],
                  LAMBDA c : c.path # None)

\* a download loop that a failed request ends: the record is dropped and the
\* downloads left are not made
DownloadedOrAborted(r) ==
    /\ failures + FailedCount(r.downloads) <= MaxFailures
    /\ failures' = failures + FailedCount(r.downloads)
    /\ fs' = [fs EXCEPT !.download_folder_manager = r.fm]
    /\ disk' = r.files
    /\ fetches' = fetches \o Calls(r)
    /\ writes' = writes \cup {[kind |-> "attachment", page |-> Top.page_id,
                               path |-> r.downloads[i].path] :
                                 i \in {j \in 1..3 : r.downloads[j].requested
                                                     /\ ~r.downloads[j].failed}}
    /\ stack' = [stack EXCEPT ![Len(stack)] =
                    IF FailedCount(r.downloads) > 0
                    THEN [@ EXCEPT !.work = <<>>, !.pc = "write"]
                    ELSE [@ EXCEPT !.work = Tail(@),
                                   !.child_attachments = Append(@, r.info),
                                   !.pc = IF Tail(Top.work) = <<>> THEN "write" ELSE "download"]]

\* lines 518-524 and 535-541 with the result r of download_attachment
Downloaded(r) ==
    /\ failures + FailedCount(r.downloads) <= MaxFailures
    /\ failures' = failures + FailedCount(r.downloads)
    /\ fs' = [fs EXCEPT !.download_folder_manager = r.fm]
    /\ disk' = r.files
    /\ fetches' = fetches \o Calls(r)
    /\ writes' = writes \cup {[kind |-> "attachment", page |-> Top.page_id,
                               path |-> r.downloads[i].path] :
                                 i \in {j \in 1..3 : r.downloads[j].requested
                                                     /\ ~r.downloads[j].failed}}
    /\ stack' = [stack EXCEPT ![Len(stack)] =
                    [@ EXCEPT !.work = Tail(@),
                              !.child_attachments = Append(@, r.info),
                              !.pc = IF Tail(Top.work) = <<>> THEN "write" ELSE "download"]]

\* a download that is not requested has no outcome to choose
Canonical(r, oks) == \A i \in 1..3 : ~r.downloads[i].requested => oks[i]

DownloadedAs(r, oks) == Canonical(r, oks) /\ Downloaded(r)

\* lines 518-524 and 535-541: one attachment or temp image is downloaded
DownloadAttachment ==
    /\ InCall("download")
    /\ \E oks \in [1..3 -> BOOLEAN] :
          DownloadedAs(download_attachment(Head(Top.work).url, Head(Top.work).attachment_id,
                                           fs.download_folder_manager, disk, oks), oks)
    /\ UNCHANGED <<fmVars, unitVars, runVars, pc, todo, cur, db, dirs, st, wrote, spaceLog, old>>

\* line 592, create_html_attachment_index: the files the page lists as its
\* attachments
Listed_attachments(attachments) ==
    [i \in 1..Len(attachments) |-> attachments[i].file_path]

\* lines 588-593: the links are rewritten and the page file is written
WritePage ==
    /\ InCall("write")
    /\ LET body == Body(Top.page_id)
           path == get_file_path(fs, Top.file_name)
       IN  /\ fs' = IF HasTree(body)
                    THEN [fs EXCEPT !.page_folder_manager = AllocateLinks(@, body.display_links)]
                    ELSE fs
           /\ disk' = WriteFile(disk, path,
                                [kind |-> "page", page |-> Top.page_id,
                                 refs |-> Listed_attachments(Top.child_attachments),
                                 rewritten |-> HasTree(body)])
           /\ writes' = writes \cup {[kind |-> "page", page |-> Top.page_id, path |-> path]}
           /\ wrote' = (Top.page_id :> path) @@ wrote
    /\ stack' = [stack EXCEPT ![Len(stack)].pc = "stub"]
    /\ UNCHANGED <<fmVars, unitVars, runVars, pc, todo, cur, db, dirs, failures, st, fetches, spaceLog,
                   old>>

\* line 596: generate_id_reverse_file
WriteStub ==
    /\ InCall("stub")
    /\ LET path == get_id_file_path(fs, Top.page.page_id)
       IN  /\ disk' = WriteFile(disk, path, [kind |-> "stub", page |-> Top.page_id, refs |-> {}])
           /\ writes' = writes \cup {[kind |-> "stub", page |-> Top.page_id, path |-> path]}
    /\ stack' = [stack EXCEPT ![Len(stack)].pc = "upsert"]
    /\ UNCHANGED <<fmVars, unitVars, runVars, pc, todo, cur, fs, db, dirs, failures, st, wrote, fetches, spaceLog,
                   old>>

\* line 599: db.upsert_page(page)
UpsertPage ==
    /\ InCall("upsert")
    /\ db' = upsert_page(db, Top.page)
    /\ writes' = writes \cup {[kind |-> "cache", page |-> Top.page_id, path |-> None]}
    /\ stack' = [stack EXCEPT ![Len(stack)].pc = "children"]
    /\ UNCHANGED <<fmVars, unitVars, runVars, pc, todo, cur, fs, disk, dirs, failures, st, wrote, fetches, spaceLog,
                   old>>

\* line 602 and iterate_page: the generator has to request a response, the
\* first one or the one under the 'next' link
NeedsListing ==
    /\ pc = "space"
    /\ stack # <<>>
    /\ \/ Top.pc = "children"
       \/ Top.pc = "recurse" /\ Top.children = <<>> /\ Top.pending # <<>>

\* a listing that ends with its first response
FirstResponseOnly == IF Top.pc = "children" THEN Children(Top.page_id) ELSE <<>>

\* what the server still has to report
ToReport == IF Top.pc = "children" THEN Children(Top.page_id) ELSE Top.pending

\* lines 140-149: a response of the child page listing arrives
ListChildrenOk ==
    /\ NeedsListing
    /\ stack' = [stack EXCEPT ![Len(stack)] =
                    [@ EXCEPT !.children = Take(ToReport, ResultsPerResponse),
                              !.pending = Drop(ToReport, ResultsPerResponse),
                              !.pc = "recurse"]]
    /\ UNCHANGED <<fmVars, unitVars, runVars, pc, todo, cur, fs, db, disk, dirs, failures, st, writes,
                   wrote, fetches, spaceLog, old>>

\* line 140 raises ConfluenceException inside the loop of line 602
ListChildrenFail ==
    /\ NeedsListing
    /\ CanFail
    /\ failures' = failures + 1
    /\ Returned(FALSE)
    /\ UNCHANGED <<fmVars, unitVars, runVars, pc, todo, fs, db, disk, dirs, writes, wrote, fetches, spaceLog, old>>

\* line 603: the recursive call for the next child page
CallChild ==
    /\ InCall("recurse")
    /\ Top.children # <<>>
    /\ stack' = Append([stack EXCEPT ![Len(stack)].children = Tail(@)],
                       NewFrame(Head(Top.children)))
    /\ UNCHANGED <<fmVars, unitVars, runVars, pc, todo, cur, fs, db, disk, dirs, failures, st, writes,
                   wrote, fetches, spaceLog, old>>

\* line 606: return page_object
ReturnPage ==
    /\ InCall("recurse")
    /\ Top.children = <<>>
    /\ Top.pending = <<>>
    /\ Returned(TRUE)
    /\ UNCHANGED <<fmVars, unitVars, runVars, pc, todo, fs, db, disk, dirs, failures, writes, wrote, fetches,
                   spaceLog, old>>

\* ------------------------------------------------------------------------
\* main
\* ------------------------------------------------------------------------

\* settings.EXPORT_FOLDER
EXPORT_FOLDER == <<"export">>

\* line 701: the file name of a space's index
INDEX_HTML ==
    <<"i", "n", "d", "e", "x", ".", "h", "t", "m", "l">>

\* lines 646-650: os.makedirs, and whatever it raises is swallowed; made is
\* the folders that exist and whether an exception has left a mkdir
mkdir(made, folder) == [dirs |-> made.dirs \cup {folder}, raised |-> made.raised]

\* line 665
ExportFolderMade == mkdir([dirs |-> dirs, raised |-> FALSE], EXPORT_FOLDER)

\* folders made by a mkdir that raises when the folder exists
SpaceFolderConflict(space) ==
    [dirs |-> dirs \cup {SpaceFolder(space), DownloadFolder(space)},
     raised |-> SpaceFolder(space) \in dirs]

\* lines 684-687
SpaceFoldersMade(space) ==
    mkdir(mkdir([dirs |-> dirs, raised |-> FALSE], SpaceFolder(space)), DownloadFolder(space))

\* line 286: the href of a page node in the index
IndexHref(node) == sanitize_for_filename(encode_url(node.file_path))

\* generate_index_content: the page nodes the index lists below its root, each
\* with the file name its node records and the href written for it
RECURSIVE IndexRefs(_)
IndexRefs(nodes) ==
    IF nodes = <<>> THEN {}
    ELSE {[page_id |-> Head(nodes).page_id, file_path |-> Head(nodes).file_path,
           href |-> IndexHref(Head(nodes))]}
         \cup IndexRefs(Head(nodes).child_pages) \cup IndexRefs(Tail(nodes))

\* lines 639-641: the pages of PAGES_TO_EXPORT grouped by their space, in the
\* order the spaces are first met
RECURSIVE GroupBySpace(_, _)
GroupBySpace(page_ids, acc) ==
    IF page_ids = <<>> THEN acc
    ELSE LET space == SpaceOf(Head(page_ids))
             at    == {i \in 1..Len(acc) : acc[i].space = space}
         IN  GroupBySpace(Tail(page_ids),
                          IF at = {}
                          THEN Append(acc, [space |-> space, homepage_only |-> FALSE,
                                            target_page_ids |-> <<Head(page_ids)>>])
                          ELSE [i \in 1..Len(acc) |->
                                   IF i \in at
                                   THEN [acc[i] EXCEPT !.target_page_ids = Append(@, Head(page_ids))]
                                   ELSE acc[i]])

\* convert_space_pages_to_export with every request answered
spaces_pages_to_export ==
    IF mode = "space" THEN SPACES_PAGES_TO_EXPORT ELSE GroupBySpace(PAGES_TO_EXPORT, <<>>)

\* line 693-694: the target pages of an item of spaces_pages_to_export
TargetsOf(item) ==
    IF item.homepage_only THEN <<Homepage(item.space)>> ELSE item.target_page_ids

\* lines 665-673 up to the loop: where main() is once the export folder is
\* made and spaces_pages_to_export is there
Converted(made) ==
    /\ dirs' = made.dirs
    /\ pc' = IF made.raised THEN "crashed" ELSE "loop"
    /\ todo' = IF made.raised THEN todo ELSE spaces_pages_to_export

\* convert_space_pages_to_export, mode 'space' with spaces configured: no
\* request is issued
ConvertSpaces ==
    /\ pc = "start"
    /\ mode = "space"
    /\ Converted(ExportFolderMade)
    /\ UNCHANGED <<fmVars, unitVars, runVars, cur, fs, stack, db, disk, failures, st, writes, wrote, fetches,
                   spaceLog, old>>

\* convert_space_pages_to_export, mode 'page': every get_page_space_by_page_id
\* is answered
ConvertPages ==
    /\ pc = "start"
    /\ mode = "page"
    /\ Converted(ExportFolderMade)
    /\ UNCHANGED <<fmVars, unitVars, runVars, cur, fs, stack, db, disk, failures, st, writes, wrote, fetches,
                   spaceLog, old>>

\* line 640 raises ConfluenceException: nothing in main() catches it there
ConvertFail ==
    /\ pc = "start"
    /\ mode = "page"
    /\ CanFail
    /\ failures' = failures + 1
    /\ dirs' = ExportFolderMade.dirs
    /\ pc' = "crashed"
    /\ UNCHANGED <<fmVars, unitVars, runVars, todo, cur, fs, stack, db, disk, st, writes, wrote, fetches, spaceLog,
                   old>>

\* lines 680-688: the next space is taken up and its folders are made
EnterSpace(item, made) ==
    /\ todo' = Tail(todo)
    /\ dirs' = made.dirs
    /\ existed' = IF SpaceFolder(item.space) \in dirs THEN existed \cup {item.space} ELSE existed
    /\ fs' = IF made.raised THEN fs ELSE NewSpaceFileSystem(item.space)
    /\ attempted' = IF made.raised THEN attempted ELSE attempted \cup {item.space}

\* lines 690-696: the homepage lookup is answered
BeginSpace ==
    /\ pc = "loop"
    /\ todo # <<>>
    /\ LET item == Head(todo)
           made == SpaceFoldersMade(item.space)
       IN  /\ EnterSpace(item, made)
           /\ cur' = IF made.raised THEN cur
                     ELSE [space |-> item.space, space_name |-> item.space,
                           target_page_ids |-> TargetsOf(item), child_pages |-> <<>>]
           /\ answered' = IF made.raised THEN answered ELSE answered \cup {item.space}
           /\ pc' = IF made.raised THEN "crashed" ELSE "space"
    /\ UNCHANGED <<fmVars, unitVars, runVars, stack, db, disk, failures, st, writes, wrote, fetches, old>>

\* line 690 raises ConfluenceException: lines 706-707, then the next space
BeginSpaceFail ==
    /\ pc = "loop"
    /\ todo # <<>>
    /\ CanFail
    /\ failures' = failures + 1
    /\ LET made == SpaceFoldersMade(Head(todo).space)
       IN  /\ EnterSpace(Head(todo), made)
           /\ pc' = IF made.raised THEN "crashed" ELSE pc
    /\ UNCHANGED <<fmVars, unitVars, runVars, cur, stack, db, disk, st, writes, wrote, fetches, answered, old>>

\* lines 697-698: fetch_page_recursively is called for the next target page
CallTarget ==
    /\ pc = "space"
    /\ stack = <<>>
    /\ cur.target_page_ids # <<>>
    /\ stack' = <<NewFrame(Head(cur.target_page_ids))>>
    /\ cur' = [cur EXCEPT !.target_page_ids = Tail(@)]
    /\ UNCHANGED <<fmVars, unitVars, runVars, pc, todo, fs, db, disk, dirs, failures, st, writes, wrote, fetches,
                   spaceLog, old>>

\* lines 701-704: the index of the space is written
WriteIndex ==
    /\ pc = "space"
    /\ stack = <<>>
    /\ cur.target_page_ids = <<>>
    /\ LET path == PathOf(SpaceFolder(cur.space), INDEX_HTML)
       IN  /\ disk' = WriteFile(disk, path, [kind |-> "index", page |-> 0,
                                             refs |-> IndexRefs(cur.child_pages)])
           /\ writes' = writes \cup {[kind |-> "index", page |-> 0, path |-> path]}
    /\ pc' = "loop"
    /\ UNCHANGED <<fmVars, unitVars, runVars, todo, cur, fs, stack, db, dirs, failures, st, wrote, fetches, spaceLog,
                   old>>

\* line 713: print_finished_output
Finish ==
    /\ pc = "loop"
    /\ todo = <<>>
    /\ pc' = "done"
    /\ UNCHANGED <<fmVars, unitVars, runVars, todo, cur, fs, stack, db, disk, dirs, failures, st, writes,
                   wrote, fetches, spaceLog, old>>

\* ------------------------------------------------------------------------
\* Between two runs
\* ------------------------------------------------------------------------

RunOver == pc \in {"done", "crashed"}

\* the pages that are edited remotely between runs: those of the space that
\* has a page tree
EditedPages == {p \in Pages : SpaceOf(p) = "S1"}

\* a page is edited remotely: its version.when advances
RemoteEdit ==
    /\ RunOver
    /\ run < MaxRuns
    /\ \E p \in EditedPages :
          /\ mtime[p] = 1
          /\ Cardinality({q \in Pages : mtime[q] > 1}) < MaxEdits
          /\ mtime' = [mtime EXCEPT ![p] = @ + 1]
    /\ UNCHANGED <<fmVars, unitVars, run, mode, force_update, pc, todo, cur, fs, stack, db, disk, dirs,
                   failures, st, writes, wrote, fetches, spaceLog, old>>

\* main() is started again: the process state is fresh, conf.db and the
\* export folder are as the last run left them
NextRun ==
    /\ RunOver
    /\ run < MaxRuns
    /\ run' = run + 1
    /\ force_update' \in BOOLEAN
    /\ pc' = "start"
    /\ todo' = <<>>
    /\ cur' = NoSpace
    /\ fs' = NoFs
    /\ stack' = <<>>
    /\ st' = [p \in Pages |-> Unseen]
    /\ writes' = {}
    /\ attempted' = {}
    /\ answered' = {}
    /\ existed' = {}
    /\ old' = [db |-> db, disk |-> disk, wrote |-> wrote, forced |-> force_update]
    /\ fetches' = <<>>
    /\ UNCHANGED <<fmVars, unitVars, mode, mtime, db, disk, dirs, failures, wrote>>

\* ------------------------------------------------------------------------
\* Specifications
\* ------------------------------------------------------------------------

\* the first run of main() is about to start: an empty conf.db and an empty
\* export folder
FirstRun ==
    /\ run = 1
    /\ pc = "start"
    /\ todo = <<>>
    /\ cur = NoSpace
    /\ fs = NoFs
    /\ stack = <<>>
    /\ db = EmptyMap
    /\ disk = {}
    /\ dirs = {}
    /\ mtime = [p \in Pages |-> 1]
    /\ failures = 0
    /\ st = [p \in Pages |-> Unseen]
    /\ writes = {}
    /\ wrote = EmptyMap
    /\ fetches = <<>>
    /\ attempted = {}
    /\ answered = {}
    /\ existed = {}
    /\ old = [db |-> EmptyMap, disk |-> {}, wrote |-> EmptyMap, forced |-> FALSE]

CrawlIdle ==
    /\ FirstRun
    /\ mode = "space"
    /\ force_update = FALSE

FMIdle ==
    /\ scope = NewFolderManager(<<>>)
    /\ ncalls = 0
    /\ last = NoCall
    /\ allocs = EmptyMap

\* the parts driven on their own are as constructed: a client that has
\* resolved no short link, a database with an empty table, no file name derived
UnitIdle ==
    /\ cached_tinyurl = EmptyMap
    /\ lookups = <<>>
    /\ page_tab = EmptyMap
    /\ upserted = [page |-> NoRow, before |-> EmptyMap]
    /\ file_url = <<>>
    /\ derived = NoName
    /\ page_scope = NewFolderManager(SpaceFolder("S1"))
    /\ page_files = EmptyMap
    /\ rewritten = [element |-> [tag |-> "", class |-> None, target |-> None], page_id |-> NoPageId, target |-> None, by |-> <<>>]
    /\ attached = [fm |-> NewFolderManager(DownloadFolder("S1")), files |-> {}, stored |-> EmptyMap]

\* the first run finds an empty conf.db, where every page is new with or
\* without --force-update: it starts without
Init ==
    /\ FMIdle
    /\ UnitIdle
    /\ FirstRun
    /\ mode \in {"space", "page"}
    /\ force_update = FALSE

Next ==
    \/ ConvertSpaces
    \/ ConvertPages
    \/ ConvertFail
    \/ BeginSpace
    \/ BeginSpaceFail
    \/ CallTarget
    \/ FetchOk
    \/ FetchFail
    \/ ListAttachmentsOk
    \/ ListAttachmentsFail
    \/ DownloadAttachment
    \/ WritePage
    \/ WriteStub
    \/ UpsertPage
    \/ ListChildrenOk
    \/ ListChildrenFail
    \/ CallChild
    \/ ReturnPage
    \/ WriteIndex
    \/ Finish
    \/ RemoteEdit
    \/ NextRun

Spec == Init /\ [][Next]_vars

\* a FolderManager on its own
FMInit == FMIdle /\ UnitIdle /\ CrawlIdle

FMNext == FMProvide

FMSpec == FMInit /\ [][FMNext]_vars

\* a client on its own
TinySpec == FMInit /\ [][TinyLookup]_vars

\* a database on its own
DbSpec == FMInit /\ [][DbUpsert]_vars

\* derive_downloaded_file_name on its own
UrlSpec == FMInit /\ [][Derive]_vars

\* the page scope of one space under link rewriting and page allocation in
\* any order
RewriteSpec == FMInit /\ [][Rewrite \/ AllocatePage]_vars

\* the attachments of a page are fetched and the elements of its body
\* rewritten
AttachSpec == FMInit /\ [][FetchAttachment \/ Rewrite]_vars

\* ------------------------------------------------------------------------
\* Properties
\* ------------------------------------------------------------------------

\* what this run wrote for page p: its page file, its stub, its downloads, its
\* cache entry
WritesFor(p) == {w \in writes : w.page = p}

PageWritten(p) == \E w \in writes : w.kind = "page" /\ w.page = p

\* p was fetched in this run and its call has ended
Ended(p) == st[p].cache # "unseen" /\ st[p].ret # "open"

\* the cache held an entry for p at least as recent as the fetched page, and
\* the run does not force
Fresh(p) == st[p].had /\ st[p].cached >= st[p].fetched /\ ~force_update

\* C1 as stated: within one FolderManager scope no two distinct titles are
\* mapped to the same filename, whatever calls of provide_unique_filename
\* were made
C1_Injective ==
    \A t1, t2 \in DOMAIN scope.title_to_filename :
        t1 # t2 => scope.title_to_filename[t1] # scope.title_to_filename[t2]

\* C2 as stated: a page that was fetched has its page file written if and
\* only if the cache held no entry, or an older one, or the run forces
C2_RendersIffStale ==
    \A p \in Pages : Ended(p) => (PageWritten(p) <=> ~Fresh(p))

\* C2, amended: a fetched page is Skipped exactly when the cache holds an
\* entry at least as recent as the fetched page and the run does not force; a
\* Skipped page gets no page file; any other page gets its page file unless
\* the attachment listing requested while rendering raises, which ends the
\* page as Failed
C2_SkippedIffFresh ==
    \A p \in Pages :
        st[p].cache # "unseen" =>
            /\ st[p].cache = "skip" <=> Fresh(p)
            /\ st[p].cache = "skip" => ~PageWritten(p)
            /\ st[p].cache = "new" /\ st[p].ret # "open" =>
                   \/ PageWritten(p)
                   \/ st[p].ret = "none" /\ st[p].raised = "attachments"

\* a run in which one page was Skipped and another, cached with an older
\* time, was rendered again
C2_Witness ==
    \E p, q \in Pages :
        /\ st[p].cache = "skip" /\ st[p].ret = "node"
        /\ st[q].cache = "new" /\ st[q].had /\ ~force_update /\ PageWritten(q)

\* the node of p is in the child list of a caller: of a call still active, of
\* a call that has ended, of the index page info, or of an index written in
\* this run
Listed(p) ==
    \/ \E i \in 1..Len(stack) : \E j \in 1..Len(stack[i].child_pages) :
          stack[i].child_pages[j].page_id = p
    \/ \E j \in 1..Len(cur.child_pages) : cur.child_pages[j].page_id = p
    \/ \E q \in Pages : \E j \in 1..Len(st[q].kids) : st[q].kids[j] = p
    \/ \E w \in writes : \E f \in disk :
          /\ w.kind = "index"
          /\ f.path = w.path
          /\ \E r \in f.content.refs : r.page_id = p

ChildSet(p) == {Children(p)[i] : i \in 1..Len(Children(p))}

\* nothing is written for a Skipped page, its cache entry is as the run found
\* it, and its title has a filename in the page scope of its space
SkippedFrame(p) ==
    /\ WritesFor(p) = {}
    /\ get_page_by_id(db, p) = get_page_by_id(old.db, p)
    /\ pc = "space" /\ cur.space = SpaceOf(p) =>
           Title(p) \in DOMAIN fs.page_folder_manager.title_to_filename

\* C3 as stated: a Skipped page has nothing written and its cache entry
\* unchanged, its filename is allocated, its node is in its parent's child
\* list and each of its child pages is visited
C3_SkippedStillListed ==
    \A p \in Pages :
        st[p].cache = "skip" /\ st[p].ret # "open" =>
            /\ SkippedFrame(p)
            /\ Listed(p)
            /\ \A c \in ChildSet(p) : st[c].visited

\* C3, amended: a Skipped page has nothing written and its cache entry
\* unchanged, and its filename is allocated; its node is in its parent's child
\* list and each of its child pages is visited unless a request of its child
\* page listing raises, which ends the page as Failed
C3_SkippedUnlessListingFails ==
    \A p \in Pages :
        st[p].cache = "skip" =>
            /\ SkippedFrame(p)
            /\ st[p].ret = "node" => Listed(p) /\ \A c \in ChildSet(p) : st[c].visited
            /\ st[p].ret = "none" => st[p].raised \in {"children", "recurse"}

\* a Skipped page with child pages has returned its node
C3_Witness ==
    \E p \in Pages :
        /\ st[p].cache = "skip"
        /\ st[p].ret = "node"
        /\ ChildSet(p) # {}
        /\ \A c \in ChildSet(p) : st[c].visited

\* C4 as stated: for a page that ended as Failed, the call wrote no page
\* file, no stub, no attachment file and no cache entry
C4_FailedWroteNothing ==
    \A p \in Pages : st[p].ret = "none" => WritesFor(p) = {}

\* the child pages of p, in the server's order, whose calls returned a node
ReturnedChildren(p) ==
    LET Kept(c) == st[c].ret = "node"
    IN  SelectSeq(Children(p), Kept)

\* the index of space s was written in this run
IndexWritten(s) ==
    \E w \in writes : w.kind = "index" /\ w.path = PathOf(SpaceFolder(s), INDEX_HTML)

ExportItems == {spaces_pages_to_export[i] : i \in 1..Len(spaces_pages_to_export)}

\* the spaces the run has to export
ExportSpaces == {item.space : item \in ExportItems}

TargetSet(item) == {TargetsOf(item)[i] : i \in 1..Len(TargetsOf(item))}

\* C5: a failed request fails only the page it was issued for (there are never
\* more Failed pages than failed requests); a page whose call returned its
\* node has had every child page of its listing visited, and holds the nodes
\* of exactly those that did not fail; and when the run is finished every
\* space was attempted, and of every space whose homepage lookup was
\* answered every target page was visited and the index written
C5_FailureContained ==
    /\ Cardinality({p \in Pages : st[p].ret = "none"}) <= failures
    /\ \A q \in Pages :
           st[q].ret = "node" =>
               \A c \in ChildSet(q) :
                   /\ st[c].visited
                   /\ st[c].ret # "open"
                   /\ st[c].ret = "node" <=> \E j \in 1..Len(st[q].kids) : st[q].kids[j] = c
    /\ pc = "done" =>
           \A item \in ExportItems :
               /\ item.space \in attempted
               /\ item.space \in answered =>
                      /\ \A t \in TargetSet(item) : st[t].visited /\ st[t].ret # "open"
                      /\ IndexWritten(item.space)

\* a finished run in which a child page Failed, a later sibling and the parent
\* returned their nodes, and the index of the space lists the parent
C5_Witness ==
    /\ pc = "done"
    /\ \E q \in Pages : \E i, j \in 1..Len(Children(q)) :
          /\ i < j
          /\ st[Children(q)[i]].ret = "none"
          /\ st[Children(q)[j]].ret = "node"
          /\ st[q].ret = "node"
          /\ st[q].kids = <<Children(q)[j]>>
          /\ IndexWritten(SpaceOf(q))

\* C6 as stated: when a run is finished, every page node an index.html
\* references has its page file on disk under the filename the node records
C6_IndexMaterialized ==
    pc = "done" =>
        \A f \in disk :
            f.content.kind = "index" =>
                \A r \in f.content.refs : Exists(disk, PathOf(f.path.folder, r.file_path))

\* C7 as stated: every run attempts every space it has to export and reports
\* that it is finished; main() is sequential and each of its steps ends, so a
\* run that can take no further step has done both
C7_EveryRunFinishes ==
    RunOver => pc = "done" /\ ExportSpaces \subseteq attempted

\* C8 as stated: of a space whose folder exists when its export starts, no
\* page is fetched and no index is written
C8_ExistingFolderAborts ==
    \A s \in existed :
        /\ ~IndexWritten(s)
        /\ \A p \in Pages : SpaceOf(p) = s => ~st[p].visited

\* C8, amended: a space whose folder exists when its export starts is
\* exported like any other: its homepage lookup is issued and, when that is
\* answered and the run is finished, its target pages were visited and its
\* index was written; the run does not end over the folder
C8_ExistingFolderExported ==
    /\ existed \subseteq attempted
    /\ existed # {} => pc # "crashed"
    /\ pc = "done" =>
           \A item \in ExportItems :
               item.space \in existed \cap answered =>
                   /\ \A t \in TargetSet(item) : st[t].visited
                   /\ IndexWritten(item.space)

\* a finished run that exported a space whose folder was there before
C8_Witness ==
    /\ pc = "done"
    /\ \E s \in existed \cap answered :
          /\ IndexWritten(s)
          /\ \E p \in Pages : SpaceOf(p) = s /\ st[p].ret = "node"

\* the child list of a node, and of every node below it, is the pages of the
\* listing whose calls returned a node, in the server's order
RECURSIVE Mirrors(_)
Mirrors(node) ==
    /\ Ids(node.child_pages) = ReturnedChildren(node.page_id)
    /\ \A i \in 1..Len(node.child_pages) : Mirrors(node.child_pages[i])

\* C9: the child list of every node returned by fetch_page_recursively is,
\* in the server's order, the child pages of the listing without the Failed
\* ones, and every child page of the listing has been processed
C9_ChildrenMirrorListing ==
    /\ \A q \in Pages :
           st[q].ret = "node" =>
               /\ st[q].kids = ReturnedChildren(q)
               /\ \A c \in ChildSet(q) : st[c].ret # "open"
    /\ \A j \in 1..Len(cur.child_pages) : Mirrors(cur.child_pages[j])
    /\ \A i \in 1..Len(stack) : \A j \in 1..Len(stack[i].child_pages) :
           Mirrors(stack[i].child_pages[j])

\* a node with two children, reported in two responses, is in the index page
\* info
C9_Witness ==
    \E j \in 1..Len(cur.child_pages) :
        /\ Len(cur.child_pages[j].child_pages) >= 2
        /\ Len(Children(cur.child_pages[j].page_id)) > ResultsPerResponse
        /\ Ids(cur.child_pages[j].child_pages) = Children(cur.child_pages[j].page_id)

\* p reached Done in the run before and is unchanged since
UnchangedSince(p) ==
    /\ p \in DOMAIN old.db
    /\ p \in DOMAIN old.wrote
    /\ old.db[p].mtime = mtime[p]

\* C10 as stated: in the second of two runs without the force flag, the page
\* file and the stub of a page that is unchanged since the first run are not
\* written; a page whose modification time advanced is rendered again; and an
\* attachment file is downloaded only if it was not on disk
C10_UnchangedUntouched ==
    run > 1 /\ ~force_update /\ ~old.forced =>
        /\ \A p \in Pages :
               UnchangedSince(p) =>
                   \A w \in writes :
                       /\ ~(w.kind = "page" /\ w.path = old.wrote[p])
                       /\ ~(w.kind = "stub" /\ w.page = p)
        /\ \A p \in Pages :
               p \in DOMAIN old.db /\ old.db[p].mtime < mtime[p] /\ Ended(p) /\ st[p].ret = "node"
                   => PageWritten(p)
        /\ \A w \in writes : w.kind = "attachment" => ~Exists(old.disk, w.path)

\* C11: a title that has a filename keeps it over every later call on the
\* scope, and a call with such a title returns that filename and changes
\* neither the title map nor the collision counters
C11_Idempotent ==
    [][\A t \in DOMAIN scope.title_to_filename :
          /\ t \in DOMAIN scope'.title_to_filename
          /\ scope'.title_to_filename[t] = scope.title_to_filename[t]
          /\ ncalls' # ncalls /\ last'.title = t =>
                 /\ last'.file_name = scope.title_to_filename[t]
                 /\ scope' = scope]_vars

\* the title 'a/' is asked for again after 'a:', allocated after it, took the
\* suffixed name of the same base
C11_Witness ==
    /\ last.known
    /\ last.title = TitleSlash
    /\ TitleColon \in DOMAIN scope.title_to_filename
    /\ HasChar(scope.title_to_filename[TitleColon], "1")
    /\ ~HasChar(last.file_name, "1")

\* C12: a call of download_file that finds a file at its destination issues
\* no request and leaves that file as it was; a call issues a request only
\* when no file is there; either way the path it returns is the destination
\* in the download folder of the space
C12_ExistingFileSkipped ==
    \A i \in 1..Len(fetches) :
        /\ fetches[i].before # {} => ~fetches[i].requested /\ fetches[i].after = fetches[i].before
        /\ fetches[i].requested => fetches[i].before = {}
        /\ fetches[i].before = {} => fetches[i].requested
        /\ fetches[i].path.folder = DownloadFolder(SpaceOf(fetches[i].page))

\* a later run calls download_file for an attachment the run before it
\* downloaded, and for one it failed to download
C12_Witness ==
    /\ run > 1
    /\ \E i, j \in 1..Len(fetches) :
           /\ fetches[i].part = 1
           /\ fetches[i].before # {}
           /\ Exists(old.disk, fetches[i].path)
           /\ fetches[j].requested
           /\ ~fetches[j].failed

\* the requests of this run, in order
Requests == SelectSeq(fetches, LAMBDA c : c.requested)

\* C13: within one run no two download requests are for the same destination
\* file
C13_OneRequestPerFile ==
    \A i, j \in 1..Len(Requests) : Requests[i].path = Requests[j].path => i = j

\* a request of a download of page p failed in this run
FailedDownload(p) == \E i \in 1..Len(fetches) : fetches[i].page = p /\ fetches[i].failed

\* the page file written for p lists one attachment for each download of p,
\* in the order of the downloads (as long as p is not edited after the run)
ListsEveryDownload(p) ==
    st[p].fetched = mtime[p] => \E f \in disk :
        /\ f.path = wrote[p]
        /\ f.content.page = p
        /\ Len(f.content.refs) = Len(Downloads(p))
        /\ \A i \in 1..Len(Downloads(p)) :
               f.content.refs[i].name = derive_downloaded_file_name(decode_url(Downloads(p)[i].url))

\* C14: a page of which a download request failed is still rendered to the
\* end: every download of the page is made and listed, the page file, the
\* stub and the cache entry are written, and the call goes on to the child
\* listing; the failed request of the file itself is reported as an error,
\* that of a thumbnail or a preview as a warning
C14_DownloadFailureContained ==
    /\ \A p \in Pages :
           FailedDownload(p) /\ Ended(p) =>
               /\ {"page", "stub", "cache"} \subseteq {w.kind : w \in WritesFor(p)}
               /\ ListsEveryDownload(p)
               /\ st[p].ret = "none" => st[p].raised \in {"children", "recurse"}
               /\ st[p].ret = "node" => \A c \in ChildSet(p) : st[c].visited
    /\ \A i \in 1..Len(fetches) :
           fetches[i].report = IF ~fetches[i].failed THEN "none"
                               ELSE IF fetches[i].part = 1 THEN "error" ELSE "warning"

\* the first download of a page with child pages failed, the downloads after
\* it were made, and the call returned a node after its children were visited
C14_Witness ==
    \E p \in Pages : \E i, j \in 1..Len(fetches) :
        /\ fetches[i].page = p
        /\ fetches[i].failed
        /\ fetches[i].report = "error"
        /\ i < j
        /\ fetches[j].page = p
        /\ fetches[j].part = 1
        /\ st[p].ret = "node"
        /\ ChildSet(p) # {}
        /\ \A c \in ChildSet(p) : st[c].ret = "node"

\* C15: a hash is in the cache exactly when a call for it returned a page id,
\* with that id; after such a call every call for the hash returns the same
\* id and issues no request; a call for a hash that no call has resolved
\* issues the request
C15_OnlySuccessCached ==
    /\ \A i \in 1..Len(lookups) : \A j \in (i + 1)..Len(lookups) :
           lookups[i].hash_val = lookups[j].hash_val /\ lookups[i].page_id # NoPageId =>
               /\ lookups[j].page_id = lookups[i].page_id
               /\ ~lookups[j].requested
    /\ \A j \in 1..Len(lookups) :
           (\A i \in 1..(j - 1) : lookups[i].hash_val = lookups[j].hash_val
                                      => lookups[i].page_id = NoPageId)
               => lookups[j].requested
    /\ DOMAIN cached_tinyurl =
           {lookups[i].hash_val : i \in {k \in 1..Len(lookups) : lookups[k].page_id # NoPageId}}
    /\ \A i \in 1..Len(lookups) :
           lookups[i].page_id # NoPageId => cached_tinyurl[lookups[i].hash_val] = lookups[i].page_id

\* a short link is not found, then resolved through its other spelling, then
\* answered from the cache
C15_Witness ==
    /\ Len(lookups) = 3
    /\ lookups[1].hash_val = lookups[2].hash_val
    /\ lookups[2].hash_val = lookups[3].hash_val
    /\ lookups[1].tinyurl # lookups[2].tinyurl
    /\ lookups[1].page_id = NoPageId /\ ~lookups[1].raised
    /\ lookups[2].requested /\ lookups[2].page_id # NoPageId
    /\ ~lookups[3].requested /\ lookups[3].page_id = lookups[2].page_id

\* C16: after upsert_page(e), get_page_by_id(e.page_id) returns e's title,
\* hash, space and modification time, the entries of the other ids are as
\* before, and the table holds one entry more exactly when e's id had none
C16_UpsertThenGet ==
    upserted.page # NoRow =>
        /\ get_page_by_id(page_tab, upserted.page.page_id) # NoRow
        /\ get_page_by_id(page_tab, upserted.page.page_id).title = upserted.page.title
        /\ get_page_by_id(page_tab, upserted.page.page_id).hash = upserted.page.hash
        /\ get_page_by_id(page_tab, upserted.page.page_id).space = upserted.page.space
        /\ get_page_by_id(page_tab, upserted.page.page_id).mtime = upserted.page.mtime
        /\ \A id \in 1..2 :
               id # upserted.page.page_id =>
                   get_page_by_id(page_tab, id) = get_page_by_id(upserted.before, id)
        /\ DOMAIN page_tab = DOMAIN upserted.before \cup {upserted.page.page_id}

\* an entry was overwritten in every field while another id kept its entry
C16_Witness ==
    /\ upserted.page # NoRow
    /\ get_page_by_id(upserted.before, upserted.page.page_id) # NoRow
    /\ get_page_by_id(upserted.before, upserted.page.page_id).title # upserted.page.title
    /\ get_page_by_id(upserted.before, upserted.page.page_id).space # upserted.page.space
    /\ get_page_by_id(upserted.before, upserted.page.page_id).mtime > upserted.page.mtime
    /\ Cardinality(DOMAIN page_tab) = 2

\* p was taken for new in this run and its body, not edited since it was
\* fetched, does not parse
ParseFailed(p) == st[p].cache = "new" /\ st[p].fetched = mtime[p] /\ ~Body(p).parses

\* the page file of p holds the body as it was fetched, with the attachments
\* of the listing below it, unless the index or a stub written after it on the
\* same path has taken its place (a page titled 'index')
OriginalBodyWritten(p) ==
    \E f \in disk :
        /\ f.path = wrote[p]
        /\ IF f.content.kind = "page"
           THEN /\ f.content.page = p
                /\ ~f.content.rewritten
                /\ Len(f.content.refs) = Len(Attachments(p))
           ELSE f.content.kind \in {"stub", "index"}

\* C17: a new page whose body does not parse is reported with a warning, and
\* unless one of its listings fails its call returns a node: the page file
\* holds the body as fetched, its stub and its cache entry are written, and
\* its child pages are visited
C17_ParseFailureContained ==
    \A p \in Pages :
        ParseFailed(p) =>
            /\ st[p].printed = "warning"
            /\ st[p].ret = "none" => st[p].raised \in {"attachments", "children", "recurse"}
            /\ st[p].ret = "node" \/ st[p].raised \in {"children", "recurse"} =>
                   /\ {"page", "stub", "cache"} \subseteq {w.kind : w \in WritesFor(p)}
                   /\ OriginalBodyWritten(p)
                   /\ db[p].mtime = mtime[p]
            /\ st[p].ret = "node" => \A c \in ChildSet(p) : st[c].ret # "open"

\* a page with a link, images and child pages was edited into a body that
\* does not parse, and the run after the edit returned its node and the nodes
\* of its children
C17_Witness ==
    \E p \in Pages :
        /\ ParseFailed(p)
        /\ st[p].had
        /\ st[p].ret = "node"
        /\ Body(p).display_links # <<>>
        /\ Body(p).temp_imgs # <<>>
        /\ ChildSet(p) # {}
        /\ \A c \in ChildSet(p) : st[c].ret = "node"

\* the base name computed when title t of the scope was allocated, and its
\* extension
AllocBase(t) == BaseName(t, allocs[t].is_folder, allocs[t].ext)

AllocExt(t) == SplitExtension(sanitize_for_filename(t), allocs[t].is_folder, allocs[t].ext).ext

\* C18: the first title with the computed base name b is given b, the k-th
\* further title with that base name b_k, each followed by '.' and its
\* extension when it has one; two titles with the same base name have
\* different filenames
C18_SuffixByRank ==
    /\ \A t \in DOMAIN allocs :
           scope.title_to_filename[t] =
               AllocBase(t)
               \o (IF allocs[t].rank = 0 THEN <<>> ELSE <<"_">> \o ToDec(allocs[t].rank))
               \o (IF AllocExt(t) = None THEN <<>> ELSE <<".">> \o AllocExt(t))
    /\ \A t1, t2 \in DOMAIN allocs :
           t1 # t2 /\ AllocBase(t1) = AllocBase(t2) =>
               scope.title_to_filename[t1] # scope.title_to_filename[t2]

\* three titles with the base name 'a' were allocated, the first and the
\* third with an extension of their own
C18_Witness ==
    /\ DOMAIN allocs = {TitleA, TitleAB, TitleAC}
    /\ \A t \in DOMAIN allocs : AllocBase(t) = TitleA
    /\ allocs[TitleAB].rank = 0
    /\ allocs[TitleA].rank = 1
    /\ allocs[TitleAC].rank = 2

\* the segments of the path of the last URL, and the file id of a conversion
\* thumbnail path: the segment after the endpoint
PathSegments == Tail(Split(UrlPath(file_url), "/"))

FileId ==
    Split(Drop(UrlPath(file_url),
               Find(UrlPath(file_url), CONVERSION_THUMBNAIL) + Len(CONVERSION_THUMBNAIL)),
          "/")[1]

\* C19 as stated: the name derived for a URL is that of its path alone: for
\* a path with /download/temp/, temp_<final segment>; for another path with
\* /download/, <3rd segment>_<2nd segment>_<final segment>; for a
\* conversion thumbnail path, generated_preview_<fileId>.jpg; for any other
\* path, none
C19_DerivedByPattern ==
    file_url # <<>> =>
        /\ derived = derive_downloaded_file_name(UrlPath(file_url))
        /\ derived =
               IF Contains(UrlPath(file_url), DOWNLOAD_TEMP)
               THEN TEMP_PREFIX \o LastOf(PathSegments)
               ELSE IF Contains(UrlPath(file_url), DOWNLOAD)
               THEN PathSegments[3] \o <<"_">> \o PathSegments[2] \o <<"_">> \o LastOf(PathSegments)
               ELSE IF Contains(UrlPath(file_url), CONVERSION_THUMBNAIL)
               THEN PREVIEW_PREFIX \o FileId \o JPG_SUFFIX
               ELSE NoName

\* the page file and the id-forward stub of p are on disk
FilesOnDisk(p) ==
    /\ \E f \in disk : f.content.kind = "page" /\ f.content.page = p
    /\ \E f \in disk : f.content.kind = "stub" /\ f.content.page = p

\* C20 as stated: at every point of a run, a cache entry that carries the
\* modification time fetched for its page in this run has the page file and
\* the stub of that page on disk
C20_CacheImpliesFiles ==
    \A p \in Pages :
        /\ st[p].cache # "unseen"
        /\ get_page_by_id(db, p) # NoRow
        /\ get_page_by_id(db, p).mtime = st[p].fetched
        => FilesOnDisk(p)

\* ------------------------------------------------------------------------
\* C21 as stated: the rewrite rules run in a fixed order and no element is
\* rewritten by more than one of them
\* ------------------------------------------------------------------------
C21_OneRulePerElement == Len(rewritten.by) <= 1

\* C21: the rewrite rules run in a fixed order, and an element is rewritten
\* by one of them at most, except a class-less short link that resolves:
\* the short-redirect rule makes it a view-by-id URL and the page-id rule
\* then makes that <page id>.html
C21_OneRuleButResolvedTiny ==
    \/ Len(rewritten.by) <= 1
    \/ /\ rewritten.by = <<"tiny", "page-id">>
       /\ rewritten.page_id # NoPageId
       /\ rewritten.target = encode_url(ToDec(rewritten.page_id) \o <<".">> \o HTML)

\* a class-less /display/ link whose href also holds '/x/' met a server that
\* resolves short links, and only the display rule rewrote it
C21_Witness ==
    /\ rewritten.element =
           [tag |-> "a", class |-> None,
            target |-> <<"/", "d", "i", "s", "p", "l", "a", "y", "/", "x", "/", "h">>]
    /\ rewritten.page_id = 2
    /\ rewritten.by = <<"display">>
    /\ rewritten.target = TitleHome \o <<".">> \o HTML

\* ------------------------------------------------------------------------
\* C22: a class-less /display/<space>/<title> link rewritten on a page scope
\* denotes the filename that the scope returned for the page of that title,
\* whichever of the two came first and whatever was allocated in between
\* ------------------------------------------------------------------------
C22_LinkDenotesPageFile ==
    LET DisplayHref(p) ==
            <<"/", "d", "i", "s", "p", "l", "a", "y", "/", "S", "1", "/">> \o encode_url(Title(p))
    IN  \A p \in DOMAIN page_files :
           rewritten.element = [tag |-> "a", class |-> None, target |-> DisplayHref(p)]
           => /\ rewritten.by = <<"display">>
              /\ decode_url(rewritten.target) = page_files[p]

\* the page 'a/' took the base name first, the link to 'a:' was rewritten
\* next and the page 'a:' was allocated last
C22_Witness ==
    /\ rewritten.element = [tag |-> "a", class |-> None, target |-> LinkHref]
    /\ {2, 3} \subseteq DOMAIN page_files
    /\ page_files[2] = <<"a", "_", ".", "h", "t", "m", "l">>
    /\ page_files[3] = <<"a", "_", "_", "1", ".", "h", "t", "m", "l">>
    /\ rewritten.target = page_files[3]

\* ------------------------------------------------------------------------
\* C23: the extension of the filename returned for a title allocated for the
\* first time is none when is_folder is set, also with an explicit extension
\* or a dot in the name; otherwise the explicit extension when one is given;
\* otherwise what follows the last '.' of the sanitized name when it has
\* one; otherwise none.  The filename is the rest of the sanitized name,
\* trimmed and made unique, followed by '.' and that extension if there is one
\* ------------------------------------------------------------------------
C23_ExtensionByCase ==
    \A t \in DOMAIN allocs :
       LET name     == sanitize_for_filename(t)
           dot      == LastIndex(name, ".")
           from_dot == ~allocs[t].is_folder /\ allocs[t].ext = None /\ dot > 0
           ext      == IF allocs[t].is_folder THEN <<>>
                       ELSE IF allocs[t].ext # None THEN <<".">> \o allocs[t].ext
                       ELSE IF dot > 0 /\ dot < Len(name) THEN <<".">> \o Drop(name, dot)
                       ELSE <<>>
           stem     == Take(IF from_dot THEN SubSeq(name, 1, dot - 1) ELSE name, TrimLen)
       IN  scope.title_to_filename[t] \in
               {stem \o ext} \cup {stem \o <<"_">> \o ToDec(k) \o ext : k \in 1..MaxCalls}

\* 'a.b' was allocated as a folder with the explicit extension 'html' and
\* came back as it is, 'a.c' as a file with it, 'a_1.c' as a file without
C23_Witness ==
    /\ {TitleAB, TitleAC, TitleA1C} \subseteq DOMAIN allocs
    /\ allocs[TitleAB].is_folder /\ allocs[TitleAB].ext = HTML
    /\ scope.title_to_filename[TitleAB] = TitleAB
    /\ ~allocs[TitleAC].is_folder /\ allocs[TitleAC].ext = HTML
    /\ scope.title_to_filename[TitleAC] = TitleAC \o <<".">> \o HTML
    /\ ~allocs[TitleA1C].is_folder /\ allocs[TitleA1C].ext = None
    /\ scope.title_to_filename[TitleA1C] = TitleA1C

\* ------------------------------------------------------------------------
\* C24 as stated: within a space folder no id-forward stub and no index.html
\* is written on the path of a page's content file, so the page content
\* written in a run is not overwritten by a stub or by the index
\* ------------------------------------------------------------------------
C24_ContentNotOverwritten ==
    \A w, v \in writes :
       w.kind = "page" /\ v.kind \in {"stub", "index"} => v.path # w.path

\* ------------------------------------------------------------------------
\* C25 as stated: the target written for an embedded-file link or an image
\* that points at the URL of a fetched attachment names the file under which
\* download_attachment stored it: the download sub-folder, '/', the filename
\* the download scope allocated
\* ------------------------------------------------------------------------
C25_TargetNamesStoredFile ==
    /\ rewritten.element.target \in DOMAIN attached.stored
    /\ \E i \in DOMAIN rewritten.by : rewritten.by[i] \in {"embedded-file", "image"}
    => decode_url(rewritten.target)
           = DOWNLOAD_SUB_FOLDER \o <<"/">> \o attached.stored[rewritten.element.target]

\* ------------------------------------------------------------------------
\* C26 as stated: the filename allocated to a Skipped page is the one under
\* which the earlier run that rendered the page wrote its file
\* ------------------------------------------------------------------------
C26_SkippedKeepsFilename ==
    \A i \in DOMAIN stack :
       /\ stack[i].pc # "fetch"
       /\ st[stack[i].page_id].cache = "skip"
       /\ stack[i].page_id \in DOMAIN wrote
       => get_file_path(fs, stack[i].file_name) = wrote[stack[i].page_id]

====
